---------------------------- MODULE Spec2Model ----------------------------
(***************************************************************************)
(* Model of the FeasAI analysis core: prompt validation, the two provider  *)
(* adapters, the JSON extraction from the raw provider text, the service   *)
(* dispatcher and the keyword classifier.                                  *)
(*                                                                         *)
(* Texts are sequences of one-character strings.  The specifications       *)
(* share the variables:                                                    *)
(*   Spec           calls of analizar_viabilidad in a process whose        *)
(*                  environment holds (or not) the provider keys;          *)
(*   SpecExtraer    the processing of one raw provider text by each of the *)
(*                  two adapters;                                          *)
(*   SpecClasificar clasificar_consulta on one text;                       *)
(*   SpecCredenciales calls of the two providers between changes of the    *)
(*                  environment, with the outcome of each provider's first *)
(*                  call kept;                                             *)
(*   SpecWeb        the views home, resultado and borrar_consulta and the  *)
(*                  command reclasificar_busquedas over the stored         *)
(*                  searches;                                              *)
(*   SpecSanitizar  sanitizar_texto on one text;                           *)
(*   SpecHome       the view home with the form of each request kept,      *)
(*                  between deletions and runs of the command.             *)
(***************************************************************************)
EXTENDS Integers, Sequences, FiniteSets, TLC

VARIABLES
    fase,              \* position of the scenario being run
    environ,           \* os.environ restricted to the three key variables
    CEREBRAS_API_KEY,  \* module global of llm_service, set at import
    llamada,           \* the call of analizar_viabilidad made, with its trace
    texto,             \* raw provider text under processing (SpecExtraer)
    extraccion,        \* what extraer_json_de_respuesta makes of texto
    salidaCerebras,    \* what the Cerebras adapter makes of texto
    salidaGemini,      \* what the Gemini adapter makes of texto
    consulta,          \* text given to clasificar_consulta (SpecClasificar)
    categoria,         \* category returned for consulta
    primeraSinClave,   \* per provider: did its first call find no key
    busquedas,         \* the table of Busqueda rows, by id
    siguienteId,       \* the id the next created row gets
    respuesta,         \* the last request with the response given to it
    comando,           \* the run of reclasificar_busquedas
    textoSucio,        \* text given to sanitizar_texto (SpecSanitizar)
    textoSaneado,      \* what sanitizar_texto returns for textoSucio
    formulario,        \* the form and the provider of the home request served
    creadas            \* ids of the rows created through home (SpecHome)

varsWeb == <<busquedas, siguienteId, respuesta, comando>>

varsSanitizar == <<textoSucio, textoSaneado>>

varsHome == <<formulario, creadas>>

vars == <<fase, environ, CEREBRAS_API_KEY, llamada, texto, extraccion,
          salidaCerebras, salidaGemini, consulta, categoria,
          primeraSinClave, varsWeb, varsSanitizar, varsHome>>

(***************************************************************************)
(* Characters and Python string primitives.                                *)
(***************************************************************************)
LB == "{"
RB == "}"
QUOTE == "\""
COLON == ":"
COMMA == ","
SP == " "
FF == "\f"

\* str.strip() removes these at both ends; the form feed is Python
\* whitespace but not JSON whitespace.
PyWhitespace == {SP, FF}
\* json.decoder WHITESPACE, restricted to the alphabet
JsonWs == {SP}
\* characters below 0x20 are refused inside a JSON string (strict mode)
ControlChars == {FF}
Digits == {"1"}

RECURSIVE LStrip(_)
LStrip(s) ==
    IF s # <<>> /\ Head(s) \in PyWhitespace THEN LStrip(Tail(s)) ELSE s

RECURSIVE RStrip(_)
RStrip(s) ==
    IF s # <<>> /\ s[Len(s)] \in PyWhitespace
    THEN RStrip(SubSeq(s, 1, Len(s) - 1))
    ELSE s

Strip(s) == RStrip(LStrip(s))

\* s[i:i+1] of Python with 1-based i: the empty text past the end
At(s, i) == IF i >= 1 /\ i <= Len(s) THEN s[i] ELSE ""

\* str.find(c) from position i, 1-based; 0 when absent
RECURSIVE FindFrom(_, _, _)
FindFrom(s, c, i) ==
    IF i > Len(s) THEN 0
    ELSE IF s[i] = c THEN i
    ELSE FindFrom(s, c, i + 1)

Find(s, c) == FindFrom(s, c, 1)

\* index of the last occurrence of c in s at or after position i; 0 when absent
RECURSIVE RFindFrom(_, _, _, _)
RFindFrom(s, c, i, j) ==
    IF j < i THEN 0
    ELSE IF s[j] = c THEN j
    ELSE RFindFrom(s, c, i, j - 1)

(***************************************************************************)
(* Python values that the analysis returns.  None is both Python's None    *)
(* and what json.loads makes of "null".                                    *)
(***************************************************************************)
None == [t |-> "None", n |-> 0, s |-> <<>>, m |-> <<>>]
JNum(k) == [t |-> "int", n |-> k, s |-> <<>>, m |-> <<>>]
JStr(x) == [t |-> "str", n |-> 0, s |-> x, m |-> <<>>]
JObj(f) == [t |-> "dict", n |-> 0, s |-> <<>>, m |-> f]

\* the dict {"error": <message>}; messages are named by the place that
\* builds them
ErrorDict(msg) == JObj(<<"e", "r", "r", "o", "r">> :> JStr(<<msg>>))
IsErrorDict(v) == v.t = "dict" /\ <<"e", "r", "r", "o", "r">> \in DOMAIN v.m

(***************************************************************************)
(* json.loads on a text: the decoder of the standard library restricted to *)
(* the alphabet (objects, strings, integers made of the digit 1, null).    *)
(* A scan returns [ok, val, fin]: fin is the position after the value.     *)
(***************************************************************************)
Fallo == [ok |-> FALSE, val |-> None, fin |-> 0]
Hecho(v, f) == [ok |-> TRUE, val |-> v, fin |-> f]

RECURSIVE SkipWs(_, _)
SkipWs(s, i) == IF At(s, i) \in JsonWs THEN SkipWs(s, i + 1) ELSE i

\* position of the closing quote of the string whose content starts at j;
\* 0 when the string is unterminated or holds a control character
RECURSIVE StringEnd(_, _)
StringEnd(s, j) ==
    IF j > Len(s) THEN 0
    ELSE IF s[j] = QUOTE THEN j
    ELSE IF s[j] \in ControlChars THEN 0
    ELSE StringEnd(s, j + 1)

\* scanstring: i is the position after the opening quote, e the position
\* of the closing one
StringValue(s, i, e) ==
    IF e = 0 THEN Fallo ELSE Hecho(JStr(SubSeq(s, i, e - 1)), e + 1)

ScanString(s, i) == StringValue(s, i, StringEnd(s, i))

RECURSIVE NumberEnd(_, _)
NumberEnd(s, i) == IF At(s, i) \in Digits THEN NumberEnd(s, i + 1) ELSE i

RECURSIVE DecimalValue(_, _, _)
DecimalValue(s, i, e) ==
    IF e <= i THEN 0 ELSE 10 * DecimalValue(s, i, e - 1) + 1

RECURSIVE ScanOnce(_, _)
RECURSIVE JSONObjectMembers(_, _, _)

\* JSONObject: i is the position after the opening brace, j the position
\* of the first character that is not whitespace
JSONObjectAt(s, j) ==
    IF At(s, j) = RB THEN Hecho(JObj(<<>>), j + 1)
    ELSE IF At(s, j) # QUOTE THEN Fallo
    ELSE JSONObjectMembers(s, j + 1, <<>>)

JSONObject(s, i) ==
    JSONObjectAt(s, IF At(s, i) # QUOTE /\ At(s, i) \in JsonWs THEN SkipWs(s, i) ELSE i)

\* the loop of JSONObject, one step after the other: after the members
\* pairs, d is the position of the next character that is not whitespace
MembersNextKey(s, pairs, k) ==
    IF At(s, k) # QUOTE THEN Fallo ELSE JSONObjectMembers(s, k + 1, pairs)

MembersNext(s, pairs, d) ==
    IF At(s, d) = RB THEN Hecho(JObj(pairs), d + 1)
    ELSE IF At(s, d) # COMMA THEN Fallo
    ELSE MembersNextKey(s, pairs, SkipWs(s, d + 1))

\* a later key replaces an equal one
MembersAfterValue(s, key, value, pairs) ==
    IF ~value.ok THEN Fallo
    ELSE MembersNext(s, (key.val.s :> value.val) @@ pairs, SkipWs(s, value.fin))

MembersAfterKey(s, key, c, pairs) ==
    IF ~key.ok THEN Fallo
    ELSE IF At(s, c) # COLON THEN Fallo
    ELSE MembersAfterValue(s, key, ScanOnce(s, SkipWs(s, c + 1)), pairs)

MembersColon(s, key, pairs) ==
    MembersAfterKey(s, key, IF key.ok THEN SkipWs(s, key.fin) ELSE 0, pairs)

\* i is the position after the opening quote of a key, pairs the members
\* read so far
JSONObjectMembers(s, i, pairs) == MembersColon(s, ScanString(s, i), pairs)

NumberValue(s, i, e) == Hecho(JNum(DecimalValue(s, i, e)), e)

\* scan_once: the value starting at position i
ScanOnce(s, i) ==
    IF At(s, i) = QUOTE THEN ScanString(s, i + 1)
    ELSE IF At(s, i) = LB THEN JSONObject(s, i + 1)
    ELSE IF At(s, i) = "n" /\ i + 3 <= Len(s)
            /\ SubSeq(s, i, i + 3) = <<"n", "u", "l", "l">>
         THEN Hecho(None, i + 4)
    ELSE IF At(s, i) \in Digits THEN NumberValue(s, i, NumberEnd(s, i))
    ELSE Fallo

\* json.loads(s): [raised, val]; raised stands for json.JSONDecodeError.
\* r is the scan of the value after the leading whitespace: text after
\* the value and its trailing whitespace is an error
Decode(s, r) ==
    IF ~r.ok THEN [raised |-> TRUE, val |-> None]
    ELSE IF SkipWs(s, r.fin) # Len(s) + 1 THEN [raised |-> TRUE, val |-> None]
    ELSE [raised |-> FALSE, val |-> r.val]

json_loads(s) == Decode(s, ScanOnce(s, SkipWs(s, 1)))


(***************************************************************************)
(* Outcome of a Python call: a returned value or a raised exception.       *)
(***************************************************************************)
Return(v) == [raised |-> "", val |-> v]
Raise(e) == [raised |-> e, val |-> None]

\* isinstance(v, str), and the truth value of a Python object
IsStr(v) == v.t = "str"
Truthy(v) ==
    CASE v.t = "None" -> FALSE
      [] v.t = "int" -> v.n # 0
      [] v.t = "str" -> v.s # <<>>
      [] v.t = "list" -> v.n # 0
      [] v.t = "dict" -> DOMAIN v.m # {}
      [] OTHER -> TRUE

\* a list of n elements, and whether len(v) / v[:k] are defined for v
JList(k) == [t |-> "list", n |-> k, s |-> <<>>, m |-> <<>>]
HasLen(v) == v.t \in {"str", "list", "dict"}
Sliceable(v) == v.t \in {"str", "list"}

(***************************************************************************)
(* The messages of the error dicts.                                        *)
(***************************************************************************)
MsgCerebrasSinClave == "API Key de Cerebras no configurada en el servidor."
MsgGeminiSinClave == "API Key de Gemini no configurada en el servidor."
MsgPrompt == "Error interno al generar el prompt de análisis."
MsgCerebrasSinRespuesta == "La API de Cerebras no devolvió una respuesta válida."
MsgCerebrasSinChoices == "La respuesta de Cerebras no tiene la estructura esperada (falta choices)."
MsgCerebrasChoicesVacio == "La respuesta de Cerebras no contiene opciones válidas."
MsgCerebrasChoiceNone == "La primera opción de respuesta de Cerebras es None."
MsgCerebrasSinMessage == "La respuesta de Cerebras no contiene un mensaje válido."
MsgCerebrasMessageNone == "El mensaje de respuesta de Cerebras es None."
MsgCerebrasSinContent == "El mensaje de Cerebras no contiene contenido."
MsgContenidoNone == "La respuesta del modelo es None. Verifica la configuración de la API o intenta nuevamente."
MsgContenidoVacio == "La respuesta del modelo está vacía. Intente nuevamente con una consulta más específica."
MsgSinJson == "La respuesta del modelo no contiene un JSON válido. El modelo puede no estar siguiendo las instrucciones correctamente."
MsgJsonInvalido == "La respuesta del modelo no es un JSON válido. Detalles: "
MsgNoSePudo == "No se pudo obtener una respuesta del modelo de IA. Detalles: "
MsgGeminiSinRespuesta == "La API de Gemini no devolvió una respuesta válida."
MsgGeminiSinTexto == "La respuesta de Gemini no contiene texto válido en ningún formato esperado."
MsgGeminiVacio == "La respuesta del modelo de Gemini está vacía."
MsgNoSoportado == "Modelo no soportado. Usa 'gemini' o 'cerebras'."

ErrorMsg(v) == v.m[<<"e", "r", "r", "o", "r">>].s[1]

(***************************************************************************)
(* extraer_json_de_respuesta and balancear_llaves, the functions nested in *)
(* analizar_viabilidad_con_cerebras.                                       *)
(***************************************************************************)
SinTexto == [nada |-> TRUE, s |-> <<>>]
ConTexto(x) == [nada |-> FALSE, s |-> x]

\* the loop of balancear_llaves from position i with brace_count braces open
RECURSIVE BalancearDesde(_, _, _, _)
BalancearDesde(t, start, i, brace_count) ==
    IF i > Len(t) THEN SinTexto
    ELSE IF t[i] = LB THEN BalancearDesde(t, start, i + 1, brace_count + 1)
    ELSE IF t[i] = RB
         THEN IF brace_count - 1 = 0
              THEN ConTexto(SubSeq(t, start, i))
              ELSE BalancearDesde(t, start, i + 1, brace_count - 1)
    ELSE BalancearDesde(t, start, i + 1, brace_count)

\* a variant that takes a brace at the first position of the text as no
\* brace
balancear_llaves_sin_primera(t) ==
    IF Find(t, LB) <= 1 THEN SinTexto
    ELSE BalancearDesde(t, Find(t, LB), Find(t, LB), 0)

balancear_llaves(t) ==
    LET start == Find(t, LB)
    IN  IF start = 0 THEN SinTexto ELSE BalancearDesde(t, start, start, 0)

\* re.findall(r'\{.*\}', t, re.DOTALL) from position p: each match runs
\* from the next '{' to the last '}' of the text (the star is greedy and
\* the dot matches every character), and the search resumes after it
RECURSIVE FindAllBraces(_, _)
FindAllBraces(t, p) ==
    LET i == FindFrom(t, LB, p)
        j == IF i = 0 THEN 0 ELSE RFindFrom(t, RB, i + 1, Len(t))
    IN  IF i = 0 \/ j = 0 THEN <<>>
        ELSE <<SubSeq(t, i, j)>> \o FindAllBraces(t, j + 1)

\* the second attempt: the loop over json_objects from index k
RECURSIVE SegundoIntento(_, _)

\* r is json.loads(balanced)
SegundoCargado(json_objects, k, r) ==
    IF r.raised THEN SegundoIntento(json_objects, k + 1)
    ELSE [hallado |-> TRUE, val |-> r.val]

SegundoBalanceado(json_objects, k, balanced) ==
    IF balanced.nada \/ balanced.s = <<>>
    THEN SegundoIntento(json_objects, k + 1)
    ELSE SegundoCargado(json_objects, k, json_loads(balanced.s))

SegundoIntento(json_objects, k) ==
    IF k > Len(json_objects) THEN [hallado |-> FALSE, val |-> None]
    ELSE SegundoBalanceado(json_objects, k, balancear_llaves(json_objects[k]))

\* the third attempt: the manual scan from the first '{'; [count, fin]
\* are brace_count and end when the loop stops
RECURSIVE TercerBucle(_, _, _, _)
TercerBucle(t, start, i, brace_count) ==
    IF i > Len(t) THEN [count |-> brace_count, fin |-> start]
    ELSE IF t[i] = LB THEN TercerBucle(t, start, i + 1, brace_count + 1)
    ELSE IF t[i] = RB
         THEN IF brace_count - 1 = 0
              THEN [count |-> 0, fin |-> i]
              ELSE TercerBucle(t, start, i + 1, brace_count - 1)
    ELSE TercerBucle(t, start, i + 1, brace_count)

\* r is json.loads(json_candidate)
TercerCargado(r) == IF r.raised THEN None ELSE r.val

TercerCandidato(t, start, b) ==
    IF b.count = 0 /\ b.fin > start
    THEN TercerCargado(json_loads(SubSeq(t, start, b.fin)))
    ELSE None

TercerDesde(t, start) ==
    IF start = 0 THEN None
    ELSE TercerCandidato(t, start, TercerBucle(t, start, start, 0))

TercerIntento(t) == TercerDesde(t, Find(t, LB))

\* extraer_json_de_respuesta with the attempt that produced the value:
\* etapa is 1, 2 or 3 (3 also when the function returns None)
ExtraerSegundo(t, segundo) ==
    IF segundo.hallado THEN [etapa |-> 2, val |-> segundo.val]
    ELSE [etapa |-> 3, val |-> TercerIntento(t)]

ExtraerPrimero(t, primero) ==
    IF ~primero.raised THEN [etapa |-> 1, val |-> primero.val]
    ELSE ExtraerSegundo(t, SegundoIntento(FindAllBraces(t, 1), 1))

\* a variant that goes to the second attempt at once
ExtraerSinPrimero(t) == ExtraerSegundo(t, SegundoIntento(FindAllBraces(t, 1), 1))

ExtraerTexto(t) == ExtraerPrimero(t, json_loads(t))

ExtraerConEtapa(raw) == ExtraerTexto(Strip(raw))

extraer_json_de_respuesta(raw) == ExtraerConEtapa(raw).val

(***************************************************************************)
(* What each adapter does with raw_content, the content taken from the     *)
(* provider response, inside its try block.                                *)
(***************************************************************************)
\* a variant with "if not resultado_dict" in the place of "is None"
CerebrasResultadoFalsy(resultado_dict) ==
    IF ~Truthy(resultado_dict) THEN Return(ErrorDict(MsgSinJson))
    ELSE Return(resultado_dict)

\* the end of analizar_viabilidad_con_cerebras, with what the extraction gave
CerebrasResultado(resultado_dict) ==
    IF resultado_dict = None THEN Return(ErrorDict(MsgSinJson))
    ELSE Return(resultado_dict)

\* analizar_viabilidad_con_cerebras from "raw_content = message.content"
CerebrasContenido(raw_content) ==
    IF Truthy(raw_content) /\ ~HasLen(raw_content) THEN Raise("TypeError")
    ELSE IF Truthy(raw_content) /\ ~Sliceable(raw_content) THEN Raise("TypeError")
    ELSE IF raw_content = None THEN Return(ErrorDict(MsgContenidoNone))
    ELSE IF ~IsStr(raw_content) \/ Strip(raw_content.s) = <<>>
         THEN Return(ErrorDict(MsgContenidoVacio))
    ELSE CerebrasResultado(extraer_json_de_respuesta(raw_content.s))

\* the end of analizar_viabilidad_con_gemini: r is json.loads(raw_content)
GeminiResultado(r) ==
    IF r.raised THEN Return(ErrorDict(MsgJsonInvalido))
    ELSE Return(r.val)

\* analizar_viabilidad_con_gemini from "if raw_content is None"
GeminiContenido(raw_content) ==
    IF raw_content = None THEN Return(ErrorDict(MsgGeminiSinTexto))
    ELSE IF ~Sliceable(raw_content) THEN Raise("TypeError")
    ELSE IF ~IsStr(raw_content) \/ Strip(raw_content.s) = <<>>
         THEN Return(ErrorDict(MsgGeminiVacio))
    ELSE GeminiResultado(json_loads(raw_content.s))

\* a try block without except clauses
SinCapturar(o) == o

\* the except clauses that close the try block of both adapters
Capturar(o) ==
    IF o.raised = "" THEN o
    ELSE IF o.raised = "JSONDecodeError" THEN Return(ErrorDict(MsgJsonInvalido))
    ELSE Return(ErrorDict(MsgNoSePudo))


(***************************************************************************)
(* disenar_prompt_robusto.  The fixed parts of the template are single     *)
(* items of the sequence; the problem text is embedded character by        *)
(* character.                                                              *)
(***************************************************************************)
MinLongitud == 10

PlantillaInicio == "ACTÚA COMO UN CONSULTOR SENIOR DE IA ... PROBLEMA O PROYECTO A ANALIZAR: "
PlantillaEstructura == " ... consulta_completa: Basado en el análisis anterior sobre '"
PlantillaFinanciera == "' ... consulta_completa: Continuando con el proyecto '"
PlantillaEstrategia == "' ... consulta_completa: Para el proyecto '"
PlantillaFinal == "' ... datos_grafico_radar ..."

PromptDe(problema_del_usuario, problema_stripped) ==
    <<PlantillaInicio>> \o problema_stripped
        \o <<PlantillaEstructura>> \o problema_del_usuario
        \o <<PlantillaFinanciera>> \o problema_del_usuario
        \o <<PlantillaEstrategia>> \o problema_del_usuario
        \o <<PlantillaFinal>>

\* a variant that measures the text as given, not the trimmed one
PromptSinRecortar(problema_del_usuario, problema_stripped) ==
    IF problema_del_usuario = <<>> THEN None
    ELSE IF Len(problema_del_usuario) < MinLongitud THEN None
    ELSE JStr(PromptDe(problema_del_usuario, problema_stripped))

PromptValidado(problema_del_usuario, problema_stripped) ==
    IF problema_stripped = <<>> THEN None
    ELSE IF Len(problema_stripped) < MinLongitud THEN None
    ELSE JStr(PromptDe(problema_del_usuario, problema_stripped))

disenar_prompt_robusto(problema_del_usuario) ==
    IF problema_del_usuario = None THEN None
    ELSE IF ~IsStr(problema_del_usuario) THEN None
    ELSE PromptValidado(problema_del_usuario.s, Strip(problema_del_usuario.s))

(***************************************************************************)
(* The provider SDKs.  A behaviour of a provider fixes what the SDK does   *)
(* in one call: forma is the first thing wrong with it ("ok" when the      *)
(* response has every attribute), content the value of                     *)
(* choices[0].message.content or of response.text, parte the value of      *)
(* candidates[0].content.parts[0].text.                                    *)
(***************************************************************************)
\* an attribute that the object does not have
Ausente == [t |-> "ausente", n |-> 0, s |-> <<>>, m |-> <<>>]

Comportamiento(f, c, p) == [forma |-> f, content |-> c, parte |-> p]
SinComportamiento == Comportamiento("ninguno", Ausente, Ausente)

\* one request to a provider: the SDK method invoked and the prompt sent
Peticion(metodo, prompt) == [metodo |-> metodo, prompt |-> prompt]

\* what a provider function did: its outcome and the requests it issued
Hizo(o, peticiones) == [o |-> o, peticiones |-> peticiones]

(***************************************************************************)
(* analizar_viabilidad_con_cerebras                                        *)
(***************************************************************************)
\* the checks on the response of client.chat.completions.create
CerebrasRespuesta(comp) ==
    CASE comp.forma = "raise" -> Raise("Exception")
      [] comp.forma = "falsy" -> Return(ErrorDict(MsgCerebrasSinRespuesta))
      [] comp.forma = "sin_choices" -> Return(ErrorDict(MsgCerebrasSinChoices))
      [] comp.forma = "choices_vacio" -> Return(ErrorDict(MsgCerebrasChoicesVacio))
      [] comp.forma = "choice_None" -> Return(ErrorDict(MsgCerebrasChoiceNone))
      [] comp.forma = "sin_message" -> Return(ErrorDict(MsgCerebrasSinMessage))
      [] comp.forma = "message_None" -> Return(ErrorDict(MsgCerebrasMessageNone))
      [] comp.forma = "sin_content" -> Return(ErrorDict(MsgCerebrasSinContent))
      [] OTHER -> CerebrasContenido(comp.content)

\* the try block with its except clauses
CerebrasConPrompt(prompt_final, comp) ==
    IF prompt_final = None
    THEN Hizo(Return(ErrorDict(MsgPrompt)), <<>>)
    ELSE IF ~IsStr(prompt_final) \/ Strip(prompt_final.s) = <<>>
    THEN Hizo(Return(ErrorDict(MsgPrompt)), <<>>)
    ELSE Hizo(Capturar(CerebrasRespuesta(comp)),
              <<Peticion("chat.completions.create", prompt_final.s)>>)

CerebrasTry(problema_usuario, comp) ==
    IF comp.forma = "cliente_raise"
    THEN Hizo(Capturar(Raise("Exception")), <<>>)
    ELSE CerebrasConPrompt(disenar_prompt_robusto(problema_usuario), comp)

\* a variant without the check of the key
CerebrasSinGuardia(problema_usuario, api_key, comp) ==
    CerebrasTry(problema_usuario, comp)

analizar_viabilidad_con_cerebras(problema_usuario, api_key, comp) ==
    IF ~Truthy(api_key)
    THEN Hizo(Return(ErrorDict(MsgCerebrasSinClave)), <<>>)
    ELSE CerebrasTry(problema_usuario, comp)

(***************************************************************************)
(* analizar_viabilidad_con_gemini                                          *)
(***************************************************************************)
\* Python's "a or b"
PyOr(a, b) == IF Truthy(a) THEN a ELSE b

\* the text taken from the response: response.text when it is there and
\* truthy, else candidates[0].content.parts[0].text when every link of
\* that path is there and truthy, else None
GeminiRawContent(comp) ==
    IF comp.content # Ausente /\ Truthy(comp.content) THEN comp.content
    ELSE IF comp.parte # Ausente /\ Truthy(comp.parte) THEN comp.parte
    ELSE None

\* the checks on the response of model.generate_content
GeminiRespuesta(comp) ==
    CASE comp.forma = "raise" -> Raise("Exception")
      [] comp.forma = "falsy" -> Return(ErrorDict(MsgGeminiSinRespuesta))
      [] comp.forma = "text_raise" -> Raise("ValueError")
      [] OTHER -> GeminiContenido(GeminiRawContent(comp))

\* a variant that sends the request a second time when the first one failed
Reintentar(o, peticion) ==
    IF o.raised = "" /\ IsErrorDict(o.val)
    THEN Hizo(o, <<peticion, peticion>>)
    ELSE Hizo(o, <<peticion>>)

GeminiConReintento(prompt_final, comp) ==
    IF prompt_final = None
    THEN Hizo(Return(ErrorDict(MsgPrompt)), <<>>)
    ELSE IF ~IsStr(prompt_final) \/ Strip(prompt_final.s) = <<>>
    THEN Hizo(Return(ErrorDict(MsgPrompt)), <<>>)
    ELSE Reintentar(Capturar(GeminiRespuesta(comp)),
                    Peticion("generate_content", prompt_final.s))

GeminiConPrompt(prompt_final, comp) ==
    IF prompt_final = None
    THEN Hizo(Return(ErrorDict(MsgPrompt)), <<>>)
    ELSE IF ~IsStr(prompt_final) \/ Strip(prompt_final.s) = <<>>
    THEN Hizo(Return(ErrorDict(MsgPrompt)), <<>>)
    ELSE Hizo(Capturar(GeminiRespuesta(comp)),
              <<Peticion("generate_content", prompt_final.s)>>)

GeminiTry(problema_usuario, comp) ==
    IF comp.forma = "cliente_raise"
    THEN Hizo(Capturar(Raise("Exception")), <<>>)
    ELSE GeminiConPrompt(disenar_prompt_robusto(problema_usuario), comp)

\* the key is GEMINI_API_KEY or, when that one is not usable, GOOGLE_API_KEY
GeminiApiKey(env) == PyOr(env["GEMINI_API_KEY"], env["GOOGLE_API_KEY"])

analizar_viabilidad_con_gemini(problema_usuario, env, comp) ==
    IF ~Truthy(GeminiApiKey(env))
    THEN Hizo(Return(ErrorDict(MsgGeminiSinClave)), <<>>)
    ELSE GeminiTry(problema_usuario, comp)

(***************************************************************************)
(* analizar_viabilidad: the result with the provider functions invoked.    *)
(***************************************************************************)
Invocacion(fn, arg, r) ==
    [fn |-> fn, arg |-> arg, retorno |-> r.o, peticiones |-> r.peticiones]

Despacho(o, invocaciones) == [o |-> o, invocaciones |-> invocaciones]

\* "return fn(arg)": r is what fn(arg) did
Delegar(fn, arg, r) == Despacho(r.o, <<Invocacion(fn, arg, r)>>)

\* a variant that also takes the capitalised names of the providers
analizar_viabilidad_capitalizado(model, problema_usuario, api_key, env, comp) ==
    IF model \in {"gemini", "Gemini"}
    THEN Delegar("analizar_viabilidad_con_gemini", problema_usuario,
                 analizar_viabilidad_con_gemini(problema_usuario, env, comp))
    ELSE IF model \in {"cerebras", "Cerebras"}
    THEN Delegar("analizar_viabilidad_con_cerebras", problema_usuario,
                 analizar_viabilidad_con_cerebras(problema_usuario, api_key, comp))
    ELSE Despacho(Return(ErrorDict(MsgNoSoportado)), <<>>)

analizar_viabilidad(model, problema_usuario, api_key, env, comp) ==
    IF model = "gemini"
    THEN Delegar("analizar_viabilidad_con_gemini", problema_usuario,
                 analizar_viabilidad_con_gemini(problema_usuario, env, comp))
    ELSE IF model = "cerebras"
    THEN Delegar("analizar_viabilidad_con_cerebras", problema_usuario,
                 analizar_viabilidad_con_cerebras(problema_usuario, api_key, comp))
    ELSE Despacho(Return(ErrorDict(MsgNoSoportado)), <<>>)

(***************************************************************************)
(* SpecExtraer: one raw provider text, a concatenation of at most          *)
(* MaxFragmentos fragments, is given to extraer_json_de_respuesta and to   *)
(* the content processing of each adapter.                                 *)
(***************************************************************************)
MaxFragmentos == 4

Fragmentos ==
    { <<LB, QUOTE, "a", QUOTE, COLON>>,
      <<LB>>,
      <<RB>>,
      <<"1">>,
      <<QUOTE, RB, QUOTE>>,
      <<QUOTE, LB, QUOTE>>,
      <<"a">>,
      <<SP>>,
      <<"n", "u", "l", "l">>,
      <<FF>> }

RECURSIVE TextosDe(_)
TextosDe(k) ==
    IF k = 0 THEN {<<>>}
    ELSE LET cortos == TextosDe(k - 1)
         IN  cortos \cup {t \o f : t \in cortos, f \in Fragmentos}

RawTexts == TextosDe(MaxFragmentos)

Pendiente == [hecho |-> FALSE, etapa |-> 0, raised |-> "", val |-> None]
Salida(e, o) == [hecho |-> TRUE, etapa |-> e, raised |-> o.raised, val |-> o.val]

SinLlamada ==
    [model |-> "", problema |-> None, comp |-> SinComportamiento,
     o |-> Return(None), invocaciones |-> <<>>]

SinUsoServicio ==
    /\ environ = <<>>
    /\ CEREBRAS_API_KEY = None
    /\ llamada = SinLlamada

SinUsoExtraer ==
    /\ texto = <<>>
    /\ extraccion = Pendiente
    /\ salidaCerebras = Pendiente
    /\ salidaGemini = Pendiente

\* no text classified yet
SinCategoria == [raised |-> "", val |-> ""]

SinUsoClasificar ==
    /\ consulta = <<>>
    /\ categoria = SinCategoria

\* no provider has been called in the process yet
SinPrimera == [p \in {"gemini", "cerebras"} |-> "sin llamada"]

\* no request answered yet
SinRespuesta ==
    [vista |-> "", usuario |-> "", metodo |-> "", id |-> 0,
     status |-> 0, destino |-> "", mensaje |-> "", excepcion |-> "",
     resultado |-> None]

\* the command is not running
ComandoInactivo ==
    [estado |-> "inactivo", dry_run |-> FALSE, force |-> FALSE,
     cambios_pendientes |-> <<>>, cambios_aplicados |-> 0,
     entrada |-> <<>>]

\* sanitizar_texto was given no text
SinSaneado == [hecho |-> FALSE, val |-> <<>>]

SinUsoSanitizar ==
    /\ textoSucio = <<>>
    /\ textoSaneado = SinSaneado

\* no home request is being served
SinPeticion ==
    [usuario |-> "", metodo |-> "", problema |-> <<>>, model |-> <<>>,
     comp |-> SinComportamiento]

SinUsoHome ==
    /\ formulario = SinPeticion
    /\ creadas = {}

SinUsoWeb ==
    /\ primeraSinClave = SinPrimera
    /\ busquedas = <<>>
    /\ siguienteId = 1
    /\ respuesta = SinRespuesta
    /\ comando = ComandoInactivo

InitExtraer ==
    /\ fase = "texto"
    /\ texto \in RawTexts
    /\ extraccion = Pendiente
    /\ salidaCerebras = Pendiente
    /\ salidaGemini = Pendiente
    /\ SinUsoServicio
    /\ SinUsoClasificar
    /\ SinUsoWeb
    /\ SinUsoSanitizar
    /\ SinUsoHome

Extraido(x) == Salida(x.etapa, Return(x.val))

\* extraer_json_de_respuesta(texto)
Extraer ==
    /\ fase = "texto"
    /\ fase' = "extraido"
    /\ extraccion' = Extraido(ExtraerConEtapa(texto))
    /\ UNCHANGED <<environ, CEREBRAS_API_KEY, llamada, texto, salidaCerebras,
                   salidaGemini, consulta, categoria>>
    /\ UNCHANGED <<primeraSinClave, varsWeb, varsSanitizar, varsHome>>

\* the Cerebras adapter receives texto as message.content
ProcesarCerebras ==
    /\ fase = "extraido"
    /\ fase' = "cerebras"
    /\ salidaCerebras' = Salida(0, Capturar(CerebrasContenido(JStr(texto))))
    /\ UNCHANGED <<environ, CEREBRAS_API_KEY, llamada, texto, extraccion,
                   salidaGemini, consulta, categoria>>
    /\ UNCHANGED <<primeraSinClave, varsWeb, varsSanitizar, varsHome>>

\* the Gemini adapter receives texto as response.text
ProcesarGemini ==
    /\ fase = "cerebras"
    /\ fase' = "gemini"
    /\ salidaGemini' = Salida(0, Capturar(GeminiContenido(
                            IF texto # <<>> THEN JStr(texto) ELSE None)))
    /\ UNCHANGED <<environ, CEREBRAS_API_KEY, llamada, texto, extraccion,
                   salidaCerebras, consulta, categoria>>
    /\ UNCHANGED <<primeraSinClave, varsWeb, varsSanitizar, varsHome>>

NextExtraer == Extraer \/ ProcesarCerebras \/ ProcesarGemini

SpecExtraer == InitExtraer /\ [][NextExtraer]_vars


(***************************************************************************)
(* Spec: a process that has imported llm_service and serves calls of       *)
(* analizar_viabilidad, while its environment may change.                  *)
(***************************************************************************)
MaxRelleno == 1
MaxMargen == 1

VariablesEntorno == {"CEREBRAS_API_KEY", "GEMINI_API_KEY", "GOOGLE_API_KEY"}
\* os.environ.get gives None for a variable that is not set
ValoresEntorno == {None, JStr(<<>>), JStr(<<"k">>)}

RECURSIVE Rep(_, _)
Rep(c, k) == IF k = 0 THEN <<>> ELSE <<c>> \o Rep(c, k - 1)

\* a text of k characters with a blank inside when there is room for one
Nucleo(k) == [i \in 1..k |-> IF i = 2 /\ k >= 3 THEN SP ELSE "x"]

\* the lengths tried: none, and those around the minimum that
\* disenar_prompt_robusto accepts
Longitudes == {0} \cup ((MinLongitud - MaxMargen)..(MinLongitud + MaxMargen))

ProblemaTextos ==
    { Rep(SP, l) \o Nucleo(k) \o Rep(FF, r) :
        l \in 0..MaxRelleno, k \in Longitudes, r \in 0..MaxRelleno }

Problemas == {None, JNum(42), JList(1)} \cup {JStr(x) : x \in ProblemaTextos}

Modelos == {"gemini", "cerebras", "Gemini", "openai"}

TextosServicio ==
    { <<>>,
      <<SP>>,
      <<LB, RB>>,
      <<LB, QUOTE, "a", QUOTE, COLON, "1", RB>>,
      <<"a", LB, QUOTE, "a", QUOTE, COLON, "1", RB>>,
      <<LB, QUOTE, "a", QUOTE, COLON>>,
      <<"1">>,
      <<"n", "u", "l", "l">>,
      <<"a">> }

Contenidos ==
    {None, JNum(0), JNum(5), JList(0), JList(1)}
        \cup {JStr(x) : x \in TextosServicio}

Partes == {Ausente, JStr(<<>>), JStr(<<LB, RB>>), JStr(<<"a">>)}

ComportamientosCerebras ==
    { Comportamiento(f, Ausente, Ausente) :
        f \in {"cliente_raise", "raise", "falsy", "sin_choices", "choices_vacio",
               "choice_None", "sin_message", "message_None", "sin_content"} }
        \cup {Comportamiento("ok", c, Ausente) : c \in Contenidos}

\* with the form text_raise the property response.text raises ValueError,
\* which hasattr does not catch, whatever the candidates hold
ComportamientosGemini ==
    { Comportamiento(f, Ausente, Ausente) :
        f \in {"cliente_raise", "raise", "falsy"} }
        \cup {Comportamiento("text_raise", Ausente, q) : q \in Partes}
        \cup {Comportamiento("ok", c, q) : c \in Contenidos \cup {Ausente}, q \in Partes}

ComportamientosDe(model) ==
    IF model = "gemini" THEN ComportamientosGemini
    ELSE IF model = "cerebras" THEN ComportamientosCerebras
    ELSE {SinComportamiento}

Init ==
    /\ fase = "proceso"
    /\ environ \in [VariablesEntorno -> ValoresEntorno]
    /\ CEREBRAS_API_KEY = environ["CEREBRAS_API_KEY"]
    /\ llamada = SinLlamada
    /\ SinUsoExtraer
    /\ SinUsoClasificar
    /\ SinUsoWeb
    /\ SinUsoSanitizar
    /\ SinUsoHome

\* os.environ[variable] = valor
PonerVariable(variable, valor) ==
    /\ fase = "proceso"
    /\ environ[variable] # valor
    /\ environ' = [environ EXCEPT ![variable] = valor]
    /\ UNCHANGED <<fase, CEREBRAS_API_KEY, llamada, texto, extraccion,
                   salidaCerebras, salidaGemini, consulta, categoria>>
    /\ UNCHANGED <<primeraSinClave, varsWeb, varsSanitizar, varsHome>>

\* a variant in which removing CEREBRAS_API_KEY from the environment also
\* clears the module global
QuitarVariableYGlobal(variable) ==
    /\ fase = "proceso"
    /\ environ[variable] # None
    /\ environ' = [environ EXCEPT ![variable] = None]
    /\ CEREBRAS_API_KEY' =
           IF variable = "CEREBRAS_API_KEY" THEN None ELSE CEREBRAS_API_KEY
    /\ UNCHANGED <<fase, llamada, texto, extraccion,
                   salidaCerebras, salidaGemini, consulta, categoria>>
    /\ UNCHANGED <<primeraSinClave, varsWeb, varsSanitizar, varsHome>>

\* os.environ.pop(variable, None)
QuitarVariable(variable) ==
    /\ fase = "proceso"
    /\ environ[variable] # None
    /\ environ' = [environ EXCEPT ![variable] = None]
    /\ UNCHANGED <<fase, CEREBRAS_API_KEY, llamada, texto, extraccion,
                   salidaCerebras, salidaGemini, consulta, categoria>>
    /\ UNCHANGED <<primeraSinClave, varsWeb, varsSanitizar, varsHome>>

\* the record of a call that returned: d is what analizar_viabilidad did
Llamada(model, problema, comp, d) ==
    [model |-> model, problema |-> problema, comp |-> comp,
     o |-> d.o, invocaciones |-> d.invocaciones]

\* analizar_viabilidad(model, problema) while the provider behaves as comp
Analizar(model, problema, comp) ==
    /\ fase = "proceso"
    /\ fase' = "retornado"
    /\ llamada' = Llamada(model, problema, comp,
             analizar_viabilidad(model, problema, CEREBRAS_API_KEY, environ, comp))
    /\ UNCHANGED <<environ, CEREBRAS_API_KEY, texto, extraccion,
                   salidaCerebras, salidaGemini, consulta, categoria>>
    /\ UNCHANGED <<primeraSinClave, varsWeb, varsSanitizar, varsHome>>

\* the caller has the result; the process goes on
Continuar ==
    /\ fase = "retornado"
    /\ fase' = "proceso"
    /\ llamada' = SinLlamada
    /\ UNCHANGED <<environ, CEREBRAS_API_KEY, texto, extraccion,
                   salidaCerebras, salidaGemini, consulta, categoria>>
    /\ UNCHANGED <<primeraSinClave, varsWeb, varsSanitizar, varsHome>>

Next ==
    \/ \E variable \in VariablesEntorno, valor \in ValoresEntorno \ {None} :
          PonerVariable(variable, valor)
    \/ \E variable \in VariablesEntorno : QuitarVariable(variable)
    \/ \E model \in Modelos, problema \in Problemas :
          \E comp \in ComportamientosDe(model) : Analizar(model, problema, comp)
    \/ Continuar

Spec == Init /\ [][Next]_vars

(***************************************************************************)
(* core/utils.py: clasificar_consulta.  A text is a sequence of            *)
(* characters; str.lower() maps each upper-case letter to its lower-case   *)
(* letter and leaves every other character alone.                          *)
(***************************************************************************)
Mayusculas ==
    <<"A", "B", "C", "D", "E", "F", "G", "H", "I", "J", "K", "L", "M",
      "N", "O", "P", "Q", "R", "S", "T", "U", "V", "W", "X", "Y", "Z",
      "Á", "É", "Í", "Ó", "Ú", "Ü", "Ñ">>
Minusculas ==
    <<"a", "b", "c", "d", "e", "f", "g", "h", "i", "j", "k", "l", "m",
      "n", "o", "p", "q", "r", "s", "t", "u", "v", "w", "x", "y", "z",
      "á", "é", "í", "ó", "ú", "ü", "ñ">>

LowerChar(c) ==
    IF \E k \in 1..Len(Mayusculas) : Mayusculas[k] = c
    THEN Minusculas[CHOOSE k \in 1..Len(Mayusculas) : Mayusculas[k] = c]
    ELSE c

\* str.lower()
Lower(s) == [i \in 1..Len(s) |-> LowerChar(s[i])]

\* "palabra in texto": palabra is a substring of texto
Contiene(texto_min, palabra) ==
    \E i \in 1..(Len(texto_min) - Len(palabra) + 1) :
        SubSeq(texto_min, i, i + Len(palabra) - 1) = palabra

\* the labels validar_categoria accepts
categorias_validas ==
    <<"Automatización",
      "Análisis de datos / predicción",
      "Procesamiento de texto",
      "Procesamiento de imágenes / video",
      "Procesamiento de audio / voz",
      "Generación de contenido",
      "Recomendación / personalización",
      "Optimización / decisión inteligente",
      "Asistentes conversacionales">>

\* the choices of the field Busqueda.categoria
CategoriaChoices ==
    {"Automatización",
     "Análisis de datos / predicción",
     "Procesamiento de texto",
     "Procesamiento de imágenes / video",
     "Procesamiento de audio / voz",
     "Generación de contenido",
     "Recomendación / personalización",
     "Optimización / decisión inteligente",
     "Asistentes conversacionales"}

\* validar_categoria(categoria), categoria a string
validar_categoria(cat) ==
    IF cat = "" THEN FALSE
    ELSE \E k \in 1..Len(categorias_validas) : categorias_validas[k] = cat

\* the dictionary categorias: label -> its key words in the order written
categorias ==
    ("Automatización" :> <<
        <<"a", "u", "t", "o", "m", "a", "t", "i", "z", "a", "c", "i", "ó", "n">>,
        <<"a", "u", "t", "o", "m", "a", "t", "i", "z", "a", "r">>,
        <<"a", "u", "t", "o", "m", "a", "t", "i", "z", "a", "d", "o">>,
        <<"r", "o", "b", "o", "t", "s">>,
        <<"w", "o", "r", "k", "f", "l", "o", "w">>,
        <<"p", "r", "o", "c", "e", "s", "o", "s">>,
        <<"t", "a", "r", "e", "a", "s", " ", "r", "e", "p", "e", "t", "i", "t", "i", "v", "a", "s">>,
        <<"e", "f", "i", "c", "i", "e", "n", "c", "i", "a">>,
        <<"a", "g", "i", "l", "i", "z", "a", "r">>
       >>)
    @@ ("Análisis de datos / predicción" :> <<
        <<"a", "n", "á", "l", "i", "s", "i", "s">>,
        <<"d", "a", "t", "o", "s">>,
        <<"p", "r", "e", "d", "i", "c", "c", "i", "ó", "n">>,
        <<"p", "r", "e", "d", "i", "c", "t", "i", "v", "o">>,
        <<"e", "s", "t", "a", "d", "í", "s", "t", "i", "c", "a", "s">>,
        <<"m", "a", "c", "h", "i", "n", "e", " ", "l", "e", "a", "r", "n", "i", "n", "g">>,
        <<"a", "p", "r", "e", "n", "d", "i", "z", "a", "j", "e", " ", "a", "u", "t", "o", "m", "á", "t", "i", "c", "o">>,
        <<"f", "o", "r", "e", "c", "a", "s", "t">>,
        <<"p", "r", "o", "y", "e", "c", "c", "i", "ó", "n">>,
        <<"m", "o", "d", "e", "l", "o", " ", "p", "r", "e", "d", "i", "c", "t", "i", "v", "o">>,
        <<"b", "i", "g", " ", "d", "a", "t", "a">>,
        <<"i", "n", "s", "i", "g", "h", "t", "s">>,
        <<"t", "e", "n", "d", "e", "n", "c", "i", "a", "s">>
       >>)
    @@ ("Procesamiento de texto" :> <<
        <<"t", "e", "x", "t", "o">>,
        <<"p", "r", "o", "c", "e", "s", "a", "r", " ", "t", "e", "x", "t", "o">>,
        <<"n", "l", "p">>,
        <<"l", "e", "n", "g", "u", "a", "j", "e", " ", "n", "a", "t", "u", "r", "a", "l">>,
        <<"t", "r", "a", "d", "u", "c", "i", "r">>,
        <<"r", "e", "s", "u", "m", "i", "r">>,
        <<"e", "s", "c", "r", "i", "b", "i", "r">>,
        <<"c", "o", "r", "r", "e", "c", "c", "i", "ó", "n">>,
        <<"e", "d", "i", "c", "i", "ó", "n">>,
        <<"d", "o", "c", "u", "m", "e", "n", "t", "o", "s">>
       >>)
    @@ ("Procesamiento de imágenes / video" :> <<
        <<"i", "m", "á", "g", "e", "n", "e", "s">>,
        <<"v", "i", "d", "e", "o">>,
        <<"p", "r", "o", "c", "e", "s", "a", "m", "i", "e", "n", "t", "o", " ", "v", "i", "s", "u", "a", "l">>,
        <<"r", "e", "c", "o", "n", "o", "c", "i", "m", "i", "e", "n", "t", "o", " ", "i", "m", "a", "g", "e", "n">>,
        <<"c", "o", "m", "p", "u", "t", "e", "r", " ", "v", "i", "s", "i", "o", "n">>,
        <<"d", "e", "t", "e", "c", "c", "i", "ó", "n", " ", "o", "b", "j", "e", "t", "o", "s">>,
        <<"c", "l", "a", "s", "i", "f", "i", "c", "a", "c", "i", "ó", "n", " ", "i", "m", "a", "g", "e", "n">>,
        <<"e", "d", "i", "c", "i", "ó", "n", " ", "v", "i", "d", "e", "o">>
       >>)
    @@ ("Procesamiento de audio / voz" :> <<
        <<"a", "u", "d", "i", "o">>,
        <<"v", "o", "z">>,
        <<"s", "p", "e", "e", "c", "h">>,
        <<"r", "e", "c", "o", "n", "o", "c", "i", "m", "i", "e", "n", "t", "o", " ", "v", "o", "z">>,
        <<"s", "i", "n", "t", "e", "t", "i", "z", "a", "d", "o", "r", " ", "v", "o", "z">>,
        <<"t", "r", "a", "n", "s", "c", "r", "i", "p", "c", "i", "ó", "n">>,
        <<"p", "o", "d", "c", "a", "s", "t", "s">>,
        <<"m", "ú", "s", "i", "c", "a">>
       >>)
    @@ ("Generación de contenido" :> <<
        <<"g", "e", "n", "e", "r", "a", "r">>,
        <<"c", "o", "n", "t", "e", "n", "i", "d", "o">>,
        <<"c", "r", "e", "a", "r">>,
        <<"e", "s", "c", "r", "i", "b", "i", "r">>,
        <<"d", "i", "s", "e", "ñ", "o">>,
        <<"a", "r", "t", "e">>,
        <<"m", "ú", "s", "i", "c", "a">>,
        <<"v", "í", "d", "e", "o", "s">>,
        <<"m", "a", "r", "k", "e", "t", "i", "n", "g", " ", "c", "r", "e", "a", "t", "i", "v", "o">>
       >>)
    @@ ("Recomendación / personalización" :> <<
        <<"r", "e", "c", "o", "m", "e", "n", "d", "a", "c", "i", "ó", "n">>,
        <<"p", "e", "r", "s", "o", "n", "a", "l", "i", "z", "a", "c", "i", "ó", "n">>,
        <<"s", "u", "g", "e", "r", "e", "n", "c", "i", "a", "s">>,
        <<"p", "r", "e", "f", "e", "r", "e", "n", "c", "i", "a", "s">>,
        <<"u", "s", "u", "a", "r", "i", "o">>,
        <<"p", "e", "r", "s", "o", "n", "a", "l", "i", "z", "a", "d", "o">>,
        <<"t", "a", "i", "l", "o", "r", "e", "d">>,
        <<"s", "i", "s", "t", "e", "m", "a", "s", " ", "r", "e", "c", "o", "m", "e", "n", "d", "a", "c", "i", "ó", "n">>
       >>)
    @@ ("Optimización / decisión inteligente" :> <<
        <<"o", "p", "t", "i", "m", "i", "z", "a", "c", "i", "ó", "n">>,
        <<"d", "e", "c", "i", "s", "i", "ó", "n">>,
        <<"i", "n", "t", "e", "l", "i", "g", "e", "n", "t", "e">>,
        <<"p", "l", "a", "n", "i", "f", "i", "c", "a", "c", "i", "ó", "n">>,
        <<"e", "s", "t", "r", "a", "t", "e", "g", "i", "a">>,
        <<"m", "e", "j", "o", "r", "a", "r">>,
        <<"e", "f", "i", "c", "i", "e", "n", "t", "e">>,
        <<"r", "u", "t", "e", "o">>,
        <<"l", "o", "g", "í", "s", "t", "i", "c", "a">>
       >>)
    @@ ("Asistentes conversacionales" :> <<
        <<"a", "s", "i", "s", "t", "e", "n", "t", "e">>,
        <<"c", "h", "a", "t", "b", "o", "t">>,
        <<"c", "o", "n", "v", "e", "r", "s", "a", "c", "i", "o", "n", "a", "l">>,
        <<"d", "i", "a", "l", "o", "g", "o">>,
        <<"a", "y", "u", "d", "a", " ", "v", "i", "r", "t", "u", "a", "l">>,
        <<"s", "o", "p", "o", "r", "t", "e">>,
        <<"p", "r", "e", "g", "u", "n", "t", "a", "s">>,
        <<"r", "e", "s", "p", "u", "e", "s", "t", "a", "s">>
       >>)

orden_prioridad ==
    <<"Asistentes conversacionales",
      "Optimización / decisión inteligente",
      "Recomendación / personalización",
      "Generación de contenido",
      "Procesamiento de audio / voz",
      "Procesamiento de imágenes / video",
      "Procesamiento de texto",
      "Análisis de datos / predicción",
      "Automatización">>

\* "sum(1 for palabra in palabras_clave if palabra in texto)"
Puntuacion(palabras_clave, texto_min) ==
    Cardinality({k \in 1..Len(palabras_clave) : Contiene(texto_min, palabras_clave[k])})

\* the dictionary puntuaciones for the lower-cased text
Puntuaciones(texto_min) ==
    [cat \in DOMAIN categorias |-> Puntuacion(categorias[cat], texto_min)]

\* a label that is none of the nine
CategoriaDesconocida == "Sin categoría"

CategoriaPorDefecto == "Automatización"

\* the loop over orden_prioridad from index k; a label that is no key of
\* puntuaciones raises KeyError
RECURSIVE ElegirCategoria(_, _)

\* a variant with ">= 0" in the place of "> 0"
ElegirCategoriaDesdeCero(puntuaciones, k) ==
    IF k > Len(orden_prioridad) THEN [raised |-> "", val |-> CategoriaPorDefecto]
    ELSE IF orden_prioridad[k] \notin DOMAIN puntuaciones
    THEN [raised |-> "KeyError", val |-> ""]
    ELSE IF puntuaciones[orden_prioridad[k]] >= 0
    THEN [raised |-> "", val |-> orden_prioridad[k]]
    ELSE ElegirCategoria(puntuaciones, k + 1)

ElegirCategoria(puntuaciones, k) ==
    IF k > Len(orden_prioridad) THEN [raised |-> "", val |-> CategoriaPorDefecto]
    ELSE IF orden_prioridad[k] \notin DOMAIN puntuaciones
    THEN [raised |-> "KeyError", val |-> ""]
    ELSE IF puntuaciones[orden_prioridad[k]] > 0
    THEN [raised |-> "", val |-> orden_prioridad[k]]
    ELSE ElegirCategoria(puntuaciones, k + 1)

\* a variant that returns the category of the highest score, the first of
\* them in orden_prioridad when several have it
MaximaPuntuacion(puntuaciones) ==
    CHOOSE n \in {puntuaciones[cat] : cat \in DOMAIN puntuaciones} :
        \A cat \in DOMAIN puntuaciones : puntuaciones[cat] <= n

PrimeraConPuntuacion(puntuaciones, n) ==
    orden_prioridad[CHOOSE k \in 1..Len(orden_prioridad) :
        /\ puntuaciones[orden_prioridad[k]] = n
        /\ \A j \in 1..(k - 1) : puntuaciones[orden_prioridad[j]] # n]

ElegirMaxima(puntuaciones, n) ==
    IF n = 0 THEN [raised |-> "", val |-> CategoriaPorDefecto]
    ELSE [raised |-> "", val |-> PrimeraConPuntuacion(puntuaciones, n)]

ElegirPorMaximo(puntuaciones) ==
    ElegirMaxima(puntuaciones, MaximaPuntuacion(puntuaciones))

clasificar_por_maximo(texto_problema) ==
    ElegirPorMaximo(Puntuaciones(Lower(texto_problema)))

clasificar_consulta(texto_problema) ==
    ElegirCategoria(Puntuaciones(Lower(texto_problema)), 1)

(***************************************************************************)
(* SpecClasificar: clasificar_consulta on one text.  A text is the         *)
(* concatenation of at most MaxPalabras pieces; the pieces are key words   *)
(* of several categories (with upper-case and accented letters), halves    *)
(* of a key phrase, and text that is in no key word.                       *)
(***************************************************************************)
MaxPalabras == 3

Palabras ==
    {<<"C", "h", "a", "t", "b", "o", "t">>,
     <<"A", "N", "Á", "L", "I", "S", "I", "S">>,
     <<"d", "a", "t", "o", "s">>,
     <<"t", "e", "x", "t", "o">>,
     <<"M", "ú", "s", "i", "c", "a">>,
     <<"m", "e", "j", "o", "r", "a", "r">>,
     <<"A", "u", "t", "o", "m", "a", "t", "i", "z", "a", "r">>,
     <<"t", "a", "r", "e", "a", "s">>,
     <<"r", "e", "p", "e", "t", "i", "t", "i", "v", "a", "s">>,
     <<" ">>}

RECURSIVE ConsultasDe(_)
ConsultasDe(k) ==
    IF k = 0 THEN {<<>>}
    ELSE ConsultasDe(k - 1)
         \cup {c \o p : c \in ConsultasDe(k - 1), p \in Palabras}

Consultas == ConsultasDe(MaxPalabras)

InitClasificar ==
    /\ fase = "consulta"
    /\ SinUsoServicio
    /\ SinUsoExtraer
    /\ consulta \in Consultas
    /\ categoria = SinCategoria
    /\ SinUsoWeb
    /\ SinUsoSanitizar
    /\ SinUsoHome

\* categoria = clasificar_consulta(consulta)
Clasificar ==
    /\ fase = "consulta"
    /\ fase' = "clasificada"
    /\ categoria' = clasificar_consulta(consulta)
    /\ UNCHANGED <<environ, CEREBRAS_API_KEY, llamada, texto, extraccion,
                   salidaCerebras, salidaGemini, consulta>>
    /\ UNCHANGED <<primeraSinClave, varsWeb, varsSanitizar, varsHome>>

NextClasificar == Clasificar

SpecClasificar == InitClasificar /\ [][NextClasificar]_vars

(***************************************************************************)
(* Properties of analizar_viabilidad (Spec).                               *)
(***************************************************************************)
Proveedores == {"gemini", "cerebras"}

\* the call recorded in llamada has returned
Retornado == fase = "retornado"

\* the credential that the provider function of model works with: Cerebras
\* holds the value llm_service read when it was imported, Gemini reads the
\* environment at the call
CredencialConfigurada(model) ==
    IF model = "cerebras" THEN Truthy(CEREBRAS_API_KEY)
    ELSE Truthy(environ["GEMINI_API_KEY"]) \/ Truthy(environ["GOOGLE_API_KEY"])

\* no request was issued to a provider during the call
SinPeticiones ==
    \A i \in DOMAIN llamada.invocaciones :
        llamada.invocaciones[i].peticiones = <<>>

\* None, not a string, or fewer than MinLongitud characters once trimmed
EntradaRechazada(problema) ==
    \/ problema = None
    \/ ~IsStr(problema)
    \/ Len(Strip(problema.s)) < MinLongitud

\* C1: for every problem input that is None, not a string, or of trimmed
\* length below 10, disenar_prompt_robusto returns no prompt, and
\* analizar_viabilidad with either provider, its credential configured,
\* returns an error dict and issues no provider request.
C1_EntradaRechazadaSinPeticion ==
    (/\ Retornado
     /\ llamada.model \in Proveedores
     /\ CredencialConfigurada(llamada.model)
     /\ EntradaRechazada(llamada.problema))
    => (/\ disenar_prompt_robusto(llamada.problema) = None
        /\ llamada.o.raised = ""
        /\ IsErrorDict(llamada.o.val)
        /\ SinPeticiones)

\* a text of ten characters, nine once trimmed, was given to Gemini with a
\* key and a provider that would have answered: the prompt error came back
C1_Testigo ==
    /\ Retornado
    /\ llamada.model = "gemini"
    /\ Truthy(environ["GEMINI_API_KEY"])
    /\ IsStr(llamada.problema)
    /\ Len(llamada.problema.s) = MinLongitud
    /\ Len(Strip(llamada.problema.s)) = MinLongitud - 1
    /\ llamada.comp = Comportamiento("ok", JStr(<<LB, RB>>), Ausente)
    /\ llamada.o = Return(ErrorDict(MsgPrompt))
    /\ SinPeticiones

\* the not-configured message of each provider
MsgSinClave(model) ==
    IF model = "cerebras" THEN MsgCerebrasSinClave ELSE MsgGeminiSinClave

\* C2: for each provider, when its credential is absent, analizar_viabilidad
\* returns that provider's not-configured error dict and makes no provider
\* call, for every problem text.
C2_SinCredencialSinLlamada ==
    (/\ Retornado
     /\ llamada.model \in Proveedores
     /\ ~CredencialConfigurada(llamada.model))
    => (/\ llamada.o = Return(ErrorDict(MsgSinClave(llamada.model)))
        /\ SinPeticiones)

\* Cerebras was called without a key, with an accepted text and a provider
\* that would have answered with a report
C2_Testigo ==
    /\ Retornado
    /\ llamada.model = "cerebras"
    /\ CEREBRAS_API_KEY = None
    /\ ~EntradaRechazada(llamada.problema)
    /\ llamada.comp = Comportamiento("ok", JStr(<<LB, RB>>), Ausente)
    /\ llamada.o = Return(ErrorDict(MsgCerebrasSinClave))
    /\ SinPeticiones

\* the provider function that model names
FuncionDe(model) ==
    IF model = "gemini" THEN "analizar_viabilidad_con_gemini"
    ELSE "analizar_viabilidad_con_cerebras"

\* C3: analizar_viabilidad(model, text) calls exactly the provider function
\* named by model ('gemini' or 'cerebras', matched exactly) once, with the
\* text unchanged, and returns its result unchanged; for every other model
\* it returns the 'Modelo no soportado' error and calls neither provider.
C3_DespachoExacto ==
    Retornado =>
        IF llamada.model \in Proveedores
        THEN /\ Len(llamada.invocaciones) = 1
             /\ llamada.invocaciones[1].fn = FuncionDe(llamada.model)
             /\ llamada.invocaciones[1].arg = llamada.problema
             /\ llamada.o = llamada.invocaciones[1].retorno
        ELSE /\ llamada.invocaciones = <<>>
             /\ llamada.o = Return(ErrorDict(MsgNoSoportado))

\* the model 'Gemini', which differs from 'gemini' in the case of a letter,
\* was given with keys in the environment: no provider function was called
C3_Testigo ==
    /\ Retornado
    /\ llamada.model = "Gemini"
    /\ Truthy(environ["GEMINI_API_KEY"])
    /\ ~EntradaRechazada(llamada.problema)
    /\ llamada.invocaciones = <<>>
    /\ llamada.o = Return(ErrorDict(MsgNoSoportado))

\* the values that the provider function may return as the parsed report
\* for the behaviour comp: what the text of the response parses to
ReportesDe(model, comp) ==
    IF model = "cerebras"
    THEN {extraer_json_de_respuesta(c.s) : c \in {c \in {comp.content} : IsStr(c)}}
    ELSE {json_loads(c.s).val :
            c \in {c \in {comp.content, comp.parte} :
                      IsStr(c) /\ ~json_loads(c.s).raised}}

\* C4: for every provider, input text and provider behaviour (the SDK
\* raising, a response that lacks choices, message, content, text or
\* candidates, null or non-string content, unparseable text),
\* analizar_viabilidad never raises: it returns the parsed report or a
\* dict with an 'error' message.
C4_NuncaLanza ==
    Retornado =>
        /\ llamada.o.raised = ""
        /\ \/ IsErrorDict(llamada.o.val)
           \/ /\ llamada.comp.forma = "ok"
              /\ llamada.o.val \in ReportesDe(llamada.model, llamada.comp)

\* the SDK of Gemini raised during generate_content, after the request
\* was issued: the call returned the error dict of the except clause
C4_Testigo ==
    /\ Retornado
    /\ llamada.model = "gemini"
    /\ llamada.comp.forma = "raise"
    /\ ~SinPeticiones
    /\ llamada.o = Return(ErrorDict(MsgNoSePudo))

(***************************************************************************)
(* Properties of extraer_json_de_respuesta and of what the adapters do     *)
(* with the text of the response (SpecExtraer).                            *)
(***************************************************************************)
\* the text has been given to extraer_json_de_respuesta
Extraida == fase # "texto" /\ extraccion.hecho

\* both adapters have processed the text
Procesado == fase = "gemini" /\ salidaCerebras.hecho /\ salidaGemini.hecho

\* t parses, as a whole, to a JSON object
EsObjetoJson(t) == ~json_loads(t).raised /\ json_loads(t).val.t = "dict"

\* C5: for every raw text that, once trimmed, is a valid JSON object, the
\* extractor returns the value that parsing that text yields, decided in
\* the first attempt, the second and the third not run.
C5_PrimerIntento ==
    (Extraida /\ EsObjetoJson(Strip(texto)))
    => (/\ extraccion.raised = ""
        /\ extraccion.val = json_loads(Strip(texto)).val
        /\ extraccion.etapa = 1)

\* the text  {"a":"}"}  and a form feed: the object with the member a = "}"
C5_Testigo ==
    /\ Extraida
    /\ texto = <<LB, QUOTE, "a", QUOTE, COLON, QUOTE, RB, QUOTE, RB, FF>>
    /\ extraccion.val = JObj(<<"a">> :> JStr(<<RB>>))
    /\ extraccion.etapa = 1

\* t has neither '{' nor '}'
SinLlaves(t) == \A i \in 1..Len(t) : t[i] # LB /\ t[i] # RB

\* C6: for every raw text prefix + J + suffix, J a valid JSON object whose
\* strings may contain any character, braces included, and prefix and
\* suffix prose without braces, extraer_json_de_respuesta returns parse(J).
C6_ObjetoEntreProsa ==
    Extraida =>
        \A i \in 1..Len(texto) : \A j \in i..Len(texto) :
            (/\ SinLlaves(SubSeq(texto, 1, i - 1))
             /\ SinLlaves(SubSeq(texto, j + 1, Len(texto)))
             /\ EsObjetoJson(SubSeq(texto, i, j)))
            => extraccion.val = json_loads(SubSeq(texto, i, j)).val

\* the brace nesting of t counted from position p to position i
Anidamiento(t, p, i) ==
    Cardinality({k \in p..i : t[k] = LB}) - Cardinality({k \in p..i : t[k] = RB})

\* t has no '{', or the nesting opened at its first '{' never returns to zero
SinObjetoCerrado(t) ==
    \/ \A i \in 1..Len(t) : t[i] # LB
    \/ \E p \in 1..Len(t) :
          /\ t[p] = LB
          /\ \A k \in 1..(p - 1) : t[k] # LB
          /\ \A i \in p..Len(t) : Anidamiento(t, p, i) > 0

\* C7: for every raw text that has no '{', or in which the brace nesting
\* opened at the first '{' never returns to zero, the extractor returns
\* None and the provider call returns an error dict, never a partial report.
C7_SinObjetoSinReporte ==
    (Procesado /\ SinObjetoCerrado(texto))
    => (/\ extraccion.val = None
        /\ IsErrorDict(salidaCerebras.val)
        /\ IsErrorDict(salidaGemini.val))

\* the outcome of an adapter as the caller tells it: the report, or failure
Desenlace(salida) ==
    IF salida.raised # "" \/ IsErrorDict(salida.val)
    THEN [fallo |-> TRUE, reporte |-> None]
    ELSE [fallo |-> FALSE, reporte |-> salida.val]

\* C8: both provider paths apply the same extraction to the raw provider
\* text: for every raw text the outcome of the Gemini path equals the
\* outcome of the Cerebras path (the same report, or a failure in both).
C8_MismoDesenlace ==
    Procesado => Desenlace(salidaGemini) = Desenlace(salidaCerebras)

\* C8 as the code has it: the Gemini path parses the raw text as a whole,
\* the Cerebras path extracts from it.  Whenever the Gemini path returns
\* something other than an error dict, the raw text is JSON as a whole and
\* the Cerebras path returns the same value, but for the text null, where
\* Gemini returns None and Cerebras the no-JSON error; nothing more holds,
\* the Cerebras path recovering objects where the Gemini path fails.
C8_GeminiImplicaCerebras ==
    (Procesado /\ ~IsErrorDict(salidaGemini.val))
    => (/\ salidaGemini.raised = ""
        /\ ~json_loads(texto).raised
        /\ salidaGemini.val = json_loads(texto).val
        /\ IF salidaGemini.val = None
           THEN salidaCerebras.val = ErrorDict(MsgSinJson)
           ELSE salidaCerebras.val = salidaGemini.val)

\* the text  {}  : both paths return the empty object
C8_Testigo ==
    /\ Procesado
    /\ texto = <<LB, RB>>
    /\ salidaGemini.val = JObj(<<>>)
    /\ salidaCerebras.val = JObj(<<>>)

(***************************************************************************)
(* Properties of clasificar_consulta (SpecClasificar).                     *)
(***************************************************************************)
Clasificada == fase = "clasificada"

\* the elements of a sequence
Elementos(seq) == {seq[i] : i \in 1..Len(seq)}

\* the number of key words of the category cat in the lower-cased consulta
PuntuacionDe(cat) ==
    Cardinality({k \in 1..Len(categorias[cat]) :
                    Contiene(Lower(consulta), categorias[cat][k])})

\* C9: clasificar_consulta is total and closed: for every text it returns
\* one of the nine category labels (the nine that validar_categoria accepts
\* and Busqueda.categoria lists), returns the default 'Automatización'
\* when no key word matches (the empty string included), and never fails.
C9_TotalYCerrada ==
    /\ Cardinality(CategoriaChoices) = 9
    /\ Elementos(categorias_validas) = CategoriaChoices
    /\ Clasificada =>
        /\ categoria.raised = ""
        /\ categoria.val \in CategoriaChoices
        /\ validar_categoria(categoria.val)
        /\ (\A cat \in DOMAIN categorias : PuntuacionDe(cat) = 0)
              => categoria.val = "Automatización"

\* the text  tareas tareas  has no key word: it got the default label
C9_Testigo ==
    /\ Clasificada
    /\ consulta = <<"t", "a", "r", "e", "a", "s", " ", "t", "a", "r", "e", "a", "s">>
    /\ \A cat \in DOMAIN categorias : PuntuacionDe(cat) = 0
    /\ categoria = [raised |-> "", val |-> "Automatización"]

RespuestaCompleta ==
    /\ Retornado
    /\ llamada.model \in Proveedores
    /\ ~SinPeticiones
    /\ llamada.comp.forma = "ok"

\* the text taken from the response of the call
TextoExtraido ==
    IF llamada.model = "cerebras" THEN llamada.comp.content
    ELSE GeminiRawContent(llamada.comp)

\* the messages with which each adapter tells that the text is absent or
\* empty
MensajesRespuestaVacia(model) ==
    IF model = "cerebras" THEN {MsgContenidoNone, MsgContenidoVacio}
    ELSE {MsgGeminiSinTexto, MsgGeminiVacio}

\* C11: in both adapters, when the text extracted from the provider
\* response is absent (None), not a string, or blank after trimming, the
\* call returns the empty-response failure, and not the transport-error,
\* malformed-response or invalid-JSON failure.
C11_RespuestaVacia ==
    (/\ RespuestaCompleta
     /\ \/ TextoExtraido = None
        \/ ~IsStr(TextoExtraido)
        \/ Strip(TextoExtraido.s) = <<>>)
    => (/\ llamada.o.raised = ""
        /\ IsErrorDict(llamada.o.val)
        /\ ErrorMsg(llamada.o.val) \in MensajesRespuestaVacia(llamada.model))

\* the Gemini response carries its text in response.text and nowhere else
SoloTextoGemini ==
    /\ RespuestaCompleta
    /\ llamada.model = "gemini"
    /\ IsStr(llamada.comp.content)
    /\ llamada.comp.parte = Ausente

\* C12: when the text of the Gemini response is not parseable as JSON
\* (prose, truncated JSON or the empty string), the adapter returns the
\* failure report "La respuesta del modelo no es un JSON válido".
C12_TextoNoJson ==
    (/\ SoloTextoGemini
     /\ json_loads(llamada.comp.content.s).raised)
    => (/\ llamada.o.raised = ""
        /\ IsErrorDict(llamada.o.val)
        /\ ErrorMsg(llamada.o.val) = MsgJsonInvalido)

\* the environment variable the provider's key is named after
VariableDeClave(model) ==
    IF model = "cerebras" THEN "CEREBRAS_API_KEY" ELSE "GEMINI_API_KEY"

\* what the provider function called by the dispatcher returned
RetornoProveedor == llamada.invocaciones[1].retorno

\* C13: for each provider, if its named key variable (CEREBRAS_API_KEY,
\* GEMINI_API_KEY) is absent from the environment at the moment of the
\* call, even when it was removed only after the module was loaded, the
\* provider function returns its "API Key ... no configurada" error.
C13_VariableAusente ==
    (/\ Retornado
     /\ llamada.model \in Proveedores
     /\ environ[VariableDeClave(llamada.model)] = None)
    => (/\ Len(llamada.invocaciones) = 1
        /\ RetornoProveedor = Return(ErrorDict(MsgSinClave(llamada.model))))

\* the template with the text t in each of its four places
PromptCon(t) == PromptDe(t, t)

\* the prompts of the requests issued during the call
PromptsEnviados ==
    UNION { {llamada.invocaciones[i].peticiones[j].prompt :
                j \in DOMAIN llamada.invocaciones[i].peticiones} :
            i \in DOMAIN llamada.invocaciones }

\* C15: for every accepted input, every place where disenar_prompt_robusto
\* embeds the problem text (the main "PROBLEMA O PROYECTO A ANALIZAR" line
\* and the three follow-up consulta_completa templates) contains the
\* whitespace-trimmed text, so two inputs differing only in leading or
\* trailing whitespace produce the same prompt.
C15_TextoRecortadoEnTodo ==
    (/\ Retornado
     /\ ~EntradaRechazada(llamada.problema))
    => (/\ disenar_prompt_robusto(llamada.problema)
              = JStr(PromptCon(Strip(llamada.problema.s)))
        /\ disenar_prompt_robusto(llamada.problema)
              = disenar_prompt_robusto(JStr(Strip(llamada.problema.s)))
        /\ \A p \in PromptsEnviados : p = PromptCon(Strip(llamada.problema.s)))

\* the requests issued to providers during the call, one after the other
RECURSIVE PeticionesDe(_)
PeticionesDe(invocaciones) ==
    IF invocaciones = <<>> THEN <<>>
    ELSE invocaciones[1].peticiones \o PeticionesDe(Tail(invocaciones))

\* the request was sent and failed, or its response cannot be used
PeticionFallida ==
    /\ PeticionesDe(llamada.invocaciones) # <<>>
    /\ \/ llamada.comp.forma # "ok"
       \/ llamada.model = "cerebras" /\ ~Truthy(llamada.comp.content)
       \/ llamada.model = "gemini" /\ GeminiRawContent(llamada.comp) = None

\* C16: each call to analizar_viabilidad issues at most one provider
\* request, to at most one provider; when that request fails or its
\* response is unusable the failure is returned at once, with no second
\* request.
C16_UnaSolaPeticion ==
    Retornado
    => (/\ Len(llamada.invocaciones) <= 1
        /\ Len(PeticionesDe(llamada.invocaciones)) <= 1
        /\ PeticionFallida
             => (/\ llamada.o.raised = ""
                 /\ IsErrorDict(llamada.o.val)
                 /\ Len(PeticionesDe(llamada.invocaciones)) = 1))

\* the request to Gemini raised: one request was made and the failure
\* report came back
C16_Testigo ==
    /\ Retornado
    /\ llamada.model = "gemini"
    /\ llamada.comp.forma = "raise"
    /\ Len(PeticionesDe(llamada.invocaciones)) = 1
    /\ llamada.o = Return(ErrorDict(MsgNoSePudo))

(***************************************************************************)
(* SpecCredenciales: the two providers are called again and again while    *)
(* the environment changes between the calls.  For each provider the       *)
(* outcome of its first call is kept: whether it failed as not-configured. *)
(***************************************************************************)
\* the call returned the provider's not-configured error
NoConfigurada(model, o) == o = Return(ErrorDict(MsgSinClave(model)))

\* primera with the outcome o of a call to model noted, if it is the first
Registrar(primera, model, o) ==
    IF primera[model] # "sin llamada" THEN primera
    ELSE [primera EXCEPT ![model] =
             IF NoConfigurada(model, o) THEN "si" ELSE "no"]

\* an accepted problem text
ProblemaCredenciales == JStr(Nucleo(MinLongitud))

ComportamientosCredenciales ==
    {Comportamiento("ok", JStr(<<LB, RB>>), Ausente),
     Comportamiento("raise", Ausente, Ausente)}

InitCredenciales == Init

\* analizar_viabilidad(model, problema) for one of the two providers
LlamarProveedor(model, comp) ==
    /\ fase = "proceso"
    /\ fase' = "retornado"
    /\ llamada' = Llamada(model, ProblemaCredenciales, comp,
             analizar_viabilidad(model, ProblemaCredenciales,
                                 CEREBRAS_API_KEY, environ, comp))
    /\ primeraSinClave' = Registrar(primeraSinClave, model, llamada'.o)
    /\ UNCHANGED <<environ, CEREBRAS_API_KEY, texto, extraccion,
                   salidaCerebras, salidaGemini, consulta, categoria>>
    /\ UNCHANGED <<varsWeb, varsSanitizar, varsHome>>

NextCredenciales ==
    \/ \E variable \in VariablesEntorno, valor \in ValoresEntorno \ {None} :
          PonerVariable(variable, valor)
    \/ \E variable \in VariablesEntorno : QuitarVariable(variable)
    \/ \E model \in Proveedores, comp \in ComportamientosCredenciales :
          LlamarProveedor(model, comp)
    \/ Continuar

SpecCredenciales == InitCredenciales /\ [][NextCredenciales]_vars

\* C14: each provider's credential is read once and is then fixed for the
\* process lifetime: across any sequence of environment changes and
\* analysis calls, whether a given provider's call fails as not-configured
\* is the same for every call made in that process.
C14_MismaConfiguracion ==
    (/\ Retornado
     /\ llamada.model \in Proveedores
     /\ primeraSinClave[llamada.model] # "sin llamada")
    => (NoConfigurada(llamada.model, llamada.o)
            <=> primeraSinClave[llamada.model] = "si")

\* C14, as the code has it: the Cerebras credential is read once, when the
\* module is loaded, and every Cerebras call of the process fails as
\* not-configured or none does; the Gemini credential is read at each
\* call, which fails as not-configured exactly when neither GEMINI_API_KEY
\* nor GOOGLE_API_KEY holds a usable value at that moment.
C14_CerebrasFijaGeminiAlLlamar ==
    (/\ Retornado
     /\ llamada.model \in Proveedores)
    => (/\ llamada.model = "cerebras"
             => (NoConfigurada("cerebras", llamada.o)
                     <=> primeraSinClave["cerebras"] = "si")
        /\ llamada.model = "gemini"
             => (NoConfigurada("gemini", llamada.o)
                     <=> ~Truthy(GeminiApiKey(environ))))

\* CEREBRAS_API_KEY is gone from the environment since the module was
\* loaded with it: the Cerebras call goes through, as the first one did
C14_Testigo ==
    /\ Retornado
    /\ llamada.model = "cerebras"
    /\ environ["CEREBRAS_API_KEY"] = None
    /\ Truthy(CEREBRAS_API_KEY)
    /\ primeraSinClave["cerebras"] = "no"
    /\ ~NoConfigurada("cerebras", llamada.o)
    /\ ~SinPeticiones

(***************************************************************************)
(* json.dumps, as home uses it on the report before it is stored.          *)
(***************************************************************************)
DigitChars == <<"0", "1", "2", "3", "4", "5", "6", "7", "8", "9">>

\* str(k) for an integer k >= 0
RECURSIVE Decimal(_)
Decimal(k) ==
    IF k < 10 THEN <<DigitChars[k + 1]>>
    ELSE Decimal(k \div 10) \o <<DigitChars[(k % 10) + 1]>>

\* the characters json.dumps writes for one character of a string
EscapeChar(c) ==
    IF c = QUOTE THEN <<"\\", QUOTE>>
    ELSE IF c = "\\" THEN <<"\\", "\\">>
    ELSE <<c>>

RECURSIVE Escape(_)
Escape(s) == IF s = <<>> THEN <<>> ELSE EscapeChar(Head(s)) \o Escape(Tail(s))

RECURSIVE Dumps(_)
RECURSIVE DumpMembers(_, _)

\* the member of key k, followed by the other members after ", "
DumpMember(m, keys, k) ==
    <<QUOTE>> \o Escape(k) \o <<QUOTE, COLON, SP>> \o Dumps(m[k])
        \o (IF keys = {k} THEN <<>>
            ELSE <<COMMA, SP>> \o DumpMembers(m, keys \ {k}))

\* the members of a dict; Python writes them in the order of insertion,
\* which JObj does not keep: one order is chosen, the text reads back as
\* the same dict in any order
DumpMembers(m, keys) ==
    IF keys = {} THEN <<>>
    ELSE DumpMember(m, keys, CHOOSE k \in keys : TRUE)

\* json.dumps(v) for None, an int, a str or a dict of such values
Dumps(v) ==
    CASE v.t = "None" -> <<"n", "u", "l", "l">>
      [] v.t = "int" -> Decimal(v.n)
      [] v.t = "str" -> <<QUOTE>> \o Escape(v.s) \o <<QUOTE>>
      [] v.t = "dict" -> <<LB>> \o DumpMembers(v.m, DOMAIN v.m) \o <<RB>>

json_dumps(v) == JStr(Dumps(v))

(***************************************************************************)
(* The views of core/views.py over the table of Busqueda rows.  A request  *)
(* is made by a user (Anonimo when not logged in) with a method; the       *)
(* response is a redirect (302), a rendered template (200), 404, 405, or   *)
(* 500 when an exception leaves the view.                                  *)
(***************************************************************************)
Anonimo == ""

Request(vista, usuario, metodo, id) ==
    [vista |-> vista, usuario |-> usuario, metodo |-> metodo, id |-> id]

Response(q, status, destino, mensaje, excepcion, resultado) ==
    [vista |-> q.vista, usuario |-> q.usuario, metodo |-> q.metodo,
     id |-> q.id, status |-> status, destino |-> destino,
     mensaje |-> mensaje, excepcion |-> excepcion, resultado |-> resultado]

\* redirect(destino) after messages.error / messages.success(mensaje)
Redirect(q, destino, mensaje) == Response(q, 302, destino, mensaje, "", None)

\* render(request, plantilla, {..., 'resultado': resultado})
Render(q, plantilla, resultado) == Response(q, 200, plantilla, "", "", resultado)

\* get_object_or_404 found no row
Http404(q) == Response(q, 404, "", "", "", None)

\* require_POST on another method
NotAllowed(q) == Response(q, 405, "", "", "", None)

\* an exception left the view
ServerError(q, excepcion) == Response(q, 500, "", "", excepcion, None)

\* login_required sends a user who is not logged in to the login page
RedirectLogin(q) == Redirect(q, "login", "")

MsgDescribe == "Por favor, describe el problema que quieres analizar."
MsgAlMenos10 == "La descripción del problema debe tener al menos 10 caracteres."
\* the fixed part of the message; the text of the error follows it
MsgErrorConsulta == "Error en la consulta: "
MsgExito == "Análisis completado exitosamente con IA avanzada."
MsgHuboError ==
    "Hubo un error al conectar con el servicio de IA. Inténtalo nuevamente."
MsgErrorCargar == "Error al cargar los resultados."
MsgEliminada == "Consulta eliminada exitosamente."

\* a row of the table
Busqueda(usuario, texto_problema, modelo, cat, resultado_llm) ==
    [usuario |-> usuario, texto_problema |-> texto_problema,
     modelo |-> modelo, categoria |-> cat, resultado_llm |-> resultado_llm]

\* a variant that looks the row up by its id alone
ExisteSinUsuario(tabla, id, usuario) == id \in DOMAIN tabla

\* get_object_or_404(Busqueda, id=id, usuario=usuario) finds a row
Existe(tabla, id, usuario) ==
    id \in DOMAIN tabla /\ tabla[id].usuario = usuario

\* the table with the row fila added under id
ConFila(tabla, id, fila) ==
    [i \in DOMAIN tabla \cup {id} |-> IF i = id THEN fila ELSE tabla[i]]

\* the table without the row id
SinFila(tabla, id) == [i \in DOMAIN tabla \ {id} |-> tabla[i]]

ClaveError ==
    <<"e", "r", "r", "o", "r">>

ClaveIndices ==
    <<"i", "n", "d", "i", "c", "e", "s", "_", "c", "l", "a", "v", "e">>

ClaveAdecuacion ==
    <<"a", "d", "e", "c", "u", "a", "c", "i", "o", "n", "_", "i", "a">>

ClaveFactibilidad ==
    <<"f", "a", "c", "t", "i", "b", "i", "l", "i", "d", "a", "d", "_", "t",
    "e", "c", "n", "i", "c", "a">>

ClaveImpacto ==
    <<"i", "m", "p", "a", "c", "t", "o", "_", "p", "o", "t", "e", "n", "c",
    "i", "a", "l">>

ClavePuntuacion ==
    <<"p", "u", "n", "t", "u", "a", "c", "i", "o", "n">>

ClaveAverage ==
    <<"a", "v", "e", "r", "a", "g", "e", "_", "v", "i", "a", "b", "i", "l",
    "i", "t", "y">>

NombreGemini ==
    <<"g", "e", "m", "i", "n", "i">>

NombreCerebras ==
    <<"c", "e", "r", "e", "b", "r", "a", "s">>

\* d.get(clave, defecto) on a dict
Get(d, clave, defecto) ==
    IF clave \in DOMAIN d.m THEN d.m[clave] ELSE defecto

\* "clave in v": "si", "no", or "TypeError" when v is None or a number;
\* the lists of the model hold no string
EnValor(clave, v) ==
    CASE v.t = "dict" -> IF clave \in DOMAIN v.m THEN "si" ELSE "no"
      [] v.t = "str" -> IF Contiene(v.s, clave) THEN "si" ELSE "no"
      [] v.t = "list" -> "no"
      [] OTHER -> "TypeError"

\* what the view did: its response, and the table after it
Efecto(r, tabla, sig) ==
    [respuesta |-> r, busquedas |-> tabla, siguienteId |-> sig]

(***************************************************************************)
(* home                                                                    *)
(***************************************************************************)
\* the name as it was sent, with no default for the names that are not
\* one of the two
NombreModeloSinDefecto(valor) ==
    IF Lower(Strip(valor)) = NombreCerebras THEN "cerebras"
    ELSE IF Lower(Strip(valor)) = NombreGemini THEN "gemini"
    ELSE "openai"

\* request.POST.get('model', 'gemini').strip().lower(), and 'gemini' for
\* any name that is not one of the two
NombreModelo(valor) ==
    IF Lower(Strip(valor)) = NombreCerebras THEN "cerebras" ELSE "gemini"

\* Busqueda.objects.create(...) and the redirect to the result; the
\* response carries the id of the new row.  cat is what clasificar_consulta
\* did
HomeCrear(q, tabla, sig, problema, model, valor, cat) ==
    IF cat.raised # ""
    THEN Efecto(Redirect(q, "core:home", MsgHuboError), tabla, sig)
    ELSE Efecto(Redirect(Request(q.vista, q.usuario, q.metodo, sig),
                         "core:resultado", MsgExito),
                ConFila(tabla, sig,
                        Busqueda(q.usuario, problema, model, cat.val,
                                 json_dumps(valor))),
                sig + 1)

\* a view that stores the value whenever the test for 'error' raises
\* nothing
HomeSegunErrorGuardando(q, tabla, sig, problema, model, valor, en) ==
    IF en = "TypeError"
    THEN Efecto(Redirect(q, "core:home", MsgHuboError), tabla, sig)
    ELSE HomeCrear(q, tabla, sig, problema, model, valor,
                   clasificar_consulta(problema))

\* after analizar_viabilidad returned valor: en is "error" in valor
HomeSegunError(q, tabla, sig, problema, model, valor, en) ==
    IF en = "TypeError"
    THEN Efecto(Redirect(q, "core:home", MsgHuboError), tabla, sig)
    ELSE IF en = "si" /\ valor.t = "dict"
    THEN Efecto(Redirect(q, "core:home", MsgErrorConsulta), tabla, sig)
    ELSE IF en = "si"
    THEN Efecto(Redirect(q, "core:home", MsgHuboError), tabla, sig)
    ELSE HomeCrear(q, tabla, sig, problema, model, valor,
                   clasificar_consulta(problema))

\* o is what analizar_viabilidad(model, problema) did
HomeConResultado(q, tabla, sig, problema, model, o) ==
    IF o.raised # ""
    THEN Efecto(Redirect(q, "core:home", MsgHuboError), tabla, sig)
    ELSE HomeSegunError(q, tabla, sig, problema, model, o.val,
                        EnValor(ClaveError, o.val))

\* the POST branch: problema is the form text, stripped.  The checks
\* inside the try that repeat the one before it can never fail
HomePost(q, tabla, sig, problema, model, api_key, env, comp) ==
    IF problema = <<>>
    THEN Efecto(Redirect(q, "core:home", MsgDescribe), tabla, sig)
    ELSE IF Len(Strip(problema)) < MinLongitud
    THEN Efecto(Redirect(q, "core:home", MsgAlMenos10), tabla, sig)
    ELSE HomeConResultado(q, tabla, sig, problema, model,
             analizar_viabilidad(model, JStr(problema), api_key, env, comp).o)

home(q, tabla, sig, problema, model, api_key, env, comp) ==
    IF q.usuario = Anonimo THEN Efecto(RedirectLogin(q), tabla, sig)
    ELSE IF q.metodo = "POST"
    THEN HomePost(q, tabla, sig, Strip(problema), NombreModelo(model),
                  api_key, env, comp)
    ELSE Efecto(Render(q, "core/home.html", None), tabla, sig)

(***************************************************************************)
(* resultado                                                               *)
(***************************************************************************)
\* indice.get('puntuacion', 0)
PuntuacionEn(indice) ==
    IF indice.t # "dict" THEN Raise("AttributeError")
    ELSE Return(Get(indice, ClavePuntuacion, JNum(0)))

\* indices_clave.get(nombre, {}).get('puntuacion', 0)
PuntuacionIndice(indices_clave, nombre) ==
    IF indices_clave.t # "dict" THEN Raise("AttributeError")
    ELSE PuntuacionEn(Get(indices_clave, nombre, JObj(<<>>)))

\* round(suma / 3) for suma >= 0: a third is never half way between two
\* integers
Round3(suma) == (suma + 1) \div 3

\* round((a + f + i) / 3), a, f and i being what the three lookups did
Promedio(a, f, i) ==
    IF a.raised # "" THEN a
    ELSE IF f.raised # "" THEN f
    ELSE IF i.raised # "" THEN i
    ELSE IF a.val.t = "int" /\ f.val.t = "int" /\ i.val.t = "int"
    THEN Return(JNum(Round3(a.val.n + f.val.n + i.val.n)))
    ELSE Raise("TypeError")

\* resultado['average_viability'] = average
ConAverage(q, cargado, average) ==
    IF average.raised # "" THEN ServerError(q, average.raised)
    ELSE Render(q, "core/resultado.html",
                JObj((ClaveAverage :> average.val) @@ cargado.m))

ResultadoConIndices(q, cargado, indices_clave) ==
    ConAverage(q, cargado,
               Promedio(PuntuacionIndice(indices_clave, ClaveAdecuacion),
                        PuntuacionIndice(indices_clave, ClaveFactibilidad),
                        PuntuacionIndice(indices_clave, ClaveImpacto)))

\* the body of the try once json.loads returned the value cargado: en is
\* 'indices_clave' in resultado
ResultadoCargado(q, cargado, en) ==
    IF en = "TypeError" THEN ServerError(q, "TypeError")
    ELSE IF en = "no" THEN Render(q, "core/resultado.html", cargado)
    ELSE IF cargado.t # "dict" THEN ServerError(q, "TypeError")
    ELSE ResultadoConIndices(q, cargado, cargado.m[ClaveIndices])

\* json.loads(busqueda.resultado_llm): a value that is not a str raises
\* TypeError, which the except clause does not take
ResultadoDe(q, resultado_llm) ==
    IF resultado_llm.t # "str" THEN ServerError(q, "TypeError")
    ELSE IF json_loads(resultado_llm.s).raised
    THEN Redirect(q, "core:home", MsgErrorCargar)
    ELSE ResultadoCargado(q, json_loads(resultado_llm.s).val,
             EnValor(ClaveIndices, json_loads(resultado_llm.s).val))

resultado(q, tabla) ==
    IF q.usuario = Anonimo THEN RedirectLogin(q)
    ELSE IF ~Existe(tabla, q.id, q.usuario) THEN Http404(q)
    ELSE ResultadoDe(q, tabla[q.id].resultado_llm)

(***************************************************************************)
(* borrar_consulta                                                         *)
(***************************************************************************)
borrar_consulta(q, tabla, sig) ==
    IF q.usuario = Anonimo THEN Efecto(RedirectLogin(q), tabla, sig)
    ELSE IF q.metodo # "POST" THEN Efecto(NotAllowed(q), tabla, sig)
    ELSE IF ~Existe(tabla, q.id, q.usuario) THEN Efecto(Http404(q), tabla, sig)
    ELSE Efecto(Redirect(q, "core:historial", MsgEliminada),
                SinFila(tabla, q.id), sig)

(***************************************************************************)
(* reclasificar_busquedas                                                  *)
(***************************************************************************)
Cambio(id, categoria_actual, nueva_categoria) ==
    [id |-> id, categoria_actual |-> categoria_actual,
     nueva_categoria |-> nueva_categoria]

RECURSIVE CambiosDesde(_, _)

\* a variant that lists a change only for a row whose category is one of
\* the nine
CambioSoloValidas(tabla, k, nueva_categoria) ==
    (IF nueva_categoria # tabla[k].categoria
        /\ validar_categoria(tabla[k].categoria)
     THEN <<Cambio(k, tabla[k].categoria, nueva_categoria)>>
     ELSE <<>>) \o CambiosDesde(tabla, k - 1)

\* one turn of the loop: nueva_categoria is clasificar_consulta of the text
\* of the row k
CambioDe(tabla, k, nueva_categoria) ==
    (IF nueva_categoria # tabla[k].categoria
     THEN <<Cambio(k, tabla[k].categoria, nueva_categoria)>>
     ELSE <<>>) \o CambiosDesde(tabla, k - 1)

\* the loop over Busqueda.objects.all(), the most recent row first: the
\* rows of id k and below
CambiosDesde(tabla, k) ==
    IF k = 0 THEN <<>>
    ELSE IF k \notin DOMAIN tabla THEN CambiosDesde(tabla, k - 1)
    ELSE CambioDe(tabla, k, clasificar_consulta(tabla[k].texto_problema).val)

\* Busqueda.objects.get(id=...), the assignment and save(); a row that is
\* gone raises DoesNotExist, which is logged
AplicarCambio(tabla, cambio) ==
    IF cambio.id \in DOMAIN tabla
    THEN [tabla EXCEPT ![cambio.id].categoria = cambio.nueva_categoria]
    ELSE tabla

\* the loop inside transaction.atomic()
RECURSIVE AplicarCambios(_, _)
AplicarCambios(tabla, cambios) ==
    IF cambios = <<>> THEN tabla
    ELSE AplicarCambios(AplicarCambio(tabla, Head(cambios)), Tail(cambios))

CambiosAplicados(tabla, cambios) ==
    Cardinality({i \in 1..Len(cambios) : cambios[i].id \in DOMAIN tabla})

Comando(estado, dry_run, force, cambios, aplicados) ==
    [estado |-> estado, dry_run |-> dry_run, force |-> force,
     cambios_pendientes |-> cambios, cambios_aplicados |-> aplicados,
     entrada |-> <<>>]

\* a variant that does not return after the listing in dry-run mode
ComandoListadoSinRetorno(dry_run, force, cambios) ==
    IF cambios = <<>>
    THEN Comando("completado", dry_run, force, cambios, 0)
    ELSE Comando("pendiente", dry_run, force, cambios, 0)

\* handle up to the listing of the pending changes: the run is over when
\* there is none or in dry-run mode
ComandoListado(dry_run, force, cambios) ==
    IF cambios = <<>> \/ dry_run
    THEN Comando("completado", dry_run, force, cambios, 0)
    ELSE Comando("pendiente", dry_run, force, cambios, 0)

(***************************************************************************)
(* SpecWeb: requests to the three views and runs of the command, one after *)
(* the other, over a table that holds at most MaxBusquedas rows made       *)
(* before (by earlier versions, tests or the shell) or by home.            *)
(***************************************************************************)
MaxBusquedas == 2

Usuarios == {"ana", "luis"}

TextoChatbot ==
    <<"C", "h", "a", "t", "b", "o", "t", SP, "d", "a", "t", "o", "s">>

\* a text with no key word
TextoSinClave == Nucleo(MinLongitud)

\* a report with the score n in indices_clave.adecuacion_ia, as json.dumps
\* writes it
TextoReporte(n) ==
    <<LB, QUOTE, "i", "n", "d", "i", "c", "e", "s", "_", "c", "l", "a",
    "v", "e", QUOTE, COLON, SP, LB, QUOTE, "a", "d", "e", "c", "u", "a",
    "c", "i", "o", "n", "_", "i", "a", QUOTE, COLON, SP, LB, QUOTE, "p",
    "u", "n", "t", "u", "a", "c", "i", "o", "n", QUOTE, COLON, SP>>
        \o Decimal(n) \o <<RB, RB, RB>>

TextoIndicesNumero ==
    <<LB, QUOTE, "i", "n", "d", "i", "c", "e", "s", "_", "c", "l", "a",
    "v", "e", QUOTE, COLON, SP, "1", RB>>

TextoErrorProveedor ==
    <<LB, QUOTE, "e", "r", "r", "o", "r", QUOTE, COLON, SP, QUOTE, "a",
    QUOTE, RB>>

\* the stored values of resultado_llm a row may hold before any request:
\* null, text that is not JSON, JSON that is not an object, objects
\* without the expected shape, and reports
ValoresGuardados ==
    {None, JStr(<<"a">>), JStr(<<"1">>), JStr(<<LB, RB>>),
     JStr(TextoIndicesNumero), JStr(TextoReporte(111))}

CategoriasGuardadas ==
    {"Automatización", "Asistentes conversacionales", "Emprendimiento"}

\* rows of either user with a saved report under any of the categories,
\* and rows of ana with any of the stored values
FilasIniciales ==
    {Busqueda(u, TextoChatbot, "gemini", c, JStr(TextoReporte(11))) :
        u \in Usuarios, c \in CategoriasGuardadas}
    \cup {Busqueda("ana", TextoSinClave, "gemini", "Automatización", v) :
            v \in ValoresGuardados}

TablasIniciales == UNION {[1..n -> FilasIniciales] : n \in 0..MaxBusquedas}

ProblemasFormulario ==
    {<<>>, Nucleo(MinLongitud - 1), <<SP>> \o TextoSinClave, TextoChatbot}

ModelosFormulario ==
    {NombreGemini,
     <<SP, "C", "e", "r", "e", "b", "r", "a", "s">>,
     <<"o", "p", "e", "n", "a", "i">>}

ComportamientosWeb ==
    {Comportamiento("raise", Ausente, Ausente)}
        \cup {Comportamiento("ok", JStr(x), Ausente) :
                x \in {TextoReporte(11), TextoReporte(111),
                       TextoErrorProveedor, <<"1">>}}

Metodos == {"GET", "POST"}

EntornoWeb == [v \in VariablesEntorno |-> JStr(<<"k">>)]

InitWeb ==
    /\ fase = "web"
    /\ environ = EntornoWeb
    /\ CEREBRAS_API_KEY = EntornoWeb["CEREBRAS_API_KEY"]
    /\ llamada = SinLlamada
    /\ SinUsoExtraer
    /\ SinUsoClasificar
    /\ primeraSinClave = SinPrimera
    /\ busquedas \in TablasIniciales
    /\ siguienteId = Len(busquedas) + 1
    /\ respuesta = SinRespuesta
    /\ comando = ComandoInactivo
    /\ SinUsoSanitizar
    /\ SinUsoHome

\* the response and the table the view leaves
Responder(e) ==
    /\ fase' = "respondido"
    /\ respuesta' = e.respuesta
    /\ busquedas' = e.busquedas
    /\ siguienteId' = e.siguienteId
    /\ UNCHANGED <<environ, CEREBRAS_API_KEY, llamada, texto, extraccion,
                   salidaCerebras, salidaGemini, consulta, categoria,
                   primeraSinClave, comando,
                   varsSanitizar>>

\* a request to home while the provider behaves as comp
Home(usuario, metodo, problema, model, comp) ==
    /\ fase = "web"
    /\ siguienteId <= MaxBusquedas
    /\ Responder(home(Request("home", usuario, metodo, 0), busquedas,
                      siguienteId, problema, model, CEREBRAS_API_KEY,
                      environ, comp))
    /\ UNCHANGED varsHome

\* a request to resultado/<id>/
Resultado(usuario, metodo, id) ==
    /\ fase = "web"
    /\ Responder(Efecto(resultado(Request("resultado", usuario, metodo, id),
                                  busquedas),
                        busquedas, siguienteId))
    /\ UNCHANGED varsHome

\* a request to borrar/<id>/
BorrarConsulta(usuario, metodo, id) ==
    /\ fase = "web"
    /\ Responder(borrar_consulta(Request("borrar_consulta", usuario, metodo, id),
                                 busquedas, siguienteId))
    /\ UNCHANGED varsHome

\* the command is started and lists the pending changes
ReclasificarListar(dry_run, force) ==
    /\ fase = "web"
    /\ comando.estado = "inactivo"
    /\ comando' = ComandoListado(dry_run, force,
                                 CambiosDesde(busquedas, MaxBusquedas))
    /\ fase' = IF comando'.estado = "completado" THEN "respondido" ELSE "web"
    /\ UNCHANGED <<environ, CEREBRAS_API_KEY, llamada, texto, extraccion,
                   salidaCerebras, salidaGemini, consulta, categoria,
                   primeraSinClave, busquedas, siguienteId, respuesta,
                   varsSanitizar, varsHome>>

\* the changes are applied and the run is over; entrada is what input()
\* returned when the question was asked
Aplicado(entrada) ==
    /\ busquedas' = AplicarCambios(busquedas, comando.cambios_pendientes)
    /\ comando' = [comando EXCEPT
           !.estado = "completado",
           !.entrada = entrada,
           !.cambios_aplicados =
               CambiosAplicados(busquedas, comando.cambios_pendientes)]

\* the run is given up
Cancelado(entrada) ==
    /\ busquedas' = busquedas
    /\ comando' = [comando EXCEPT !.estado = "cancelado",
                                  !.entrada = entrada]

\* with --force the changes are applied without a question
ReclasificarAplicar ==
    /\ fase = "web"
    /\ comando.estado = "pendiente"
    /\ comando.force
    /\ Aplicado(<<>>)
    /\ fase' = "respondido"
    /\ UNCHANGED <<environ, CEREBRAS_API_KEY, llamada, texto, extraccion,
                   salidaCerebras, salidaGemini, consulta, categoria,
                   primeraSinClave, siguienteId, respuesta,
                   varsSanitizar, varsHome>>

\* without --force the answer to the question decides: entrada is what
\* input() returns
ReclasificarConfirmar(entrada) ==
    /\ fase = "web"
    /\ comando.estado = "pendiente"
    /\ ~comando.force
    /\ IF Lower(Strip(entrada)) = <<"y">> THEN Aplicado(entrada)
       ELSE Cancelado(entrada)
    /\ fase' = "respondido"
    /\ UNCHANGED <<environ, CEREBRAS_API_KEY, llamada, texto, extraccion,
                   salidaCerebras, salidaGemini, consulta, categoria,
                   primeraSinClave, siguienteId, respuesta,
                   varsSanitizar, varsHome>>

Entradas == {<<"y">>, <<SP, "Y">>, <<"n">>, <<>>}

\* the response was delivered, the finished run of the command is over
ContinuarWeb ==
    /\ fase = "respondido"
    /\ fase' = "web"
    /\ respuesta' = SinRespuesta
    /\ comando' = IF comando.estado = "pendiente" THEN comando
                  ELSE ComandoInactivo
    /\ formulario' = SinPeticion
    /\ UNCHANGED <<environ, CEREBRAS_API_KEY, llamada, texto, extraccion,
                   salidaCerebras, salidaGemini, consulta, categoria,
                   primeraSinClave, busquedas, siguienteId,
                   varsSanitizar, creadas>>

NextWeb ==
    \/ \E usuario \in Usuarios \cup {Anonimo}, metodo \in Metodos,
          problema \in ProblemasFormulario, model \in ModelosFormulario,
          comp \in ComportamientosWeb :
          Home(usuario, metodo, problema, model, comp)
    \/ \E usuario \in Usuarios \cup {Anonimo}, metodo \in Metodos,
          id \in 1..MaxBusquedas : Resultado(usuario, metodo, id)
    \/ \E usuario \in Usuarios \cup {Anonimo}, metodo \in Metodos,
          id \in 1..MaxBusquedas : BorrarConsulta(usuario, metodo, id)
    \/ \E dry_run \in BOOLEAN, force \in BOOLEAN :
          ReclasificarListar(dry_run, force)
    \/ ReclasificarAplicar
    \/ \E entrada \in Entradas : ReclasificarConfirmar(entrada)
    \/ ContinuarWeb

SpecWeb == InitWeb /\ [][NextWeb]_vars

\* a request to the view vista was answered
Respondido(vista) == fase = "respondido" /\ respuesta.vista = vista

\* the row the answered request named, when the requester owns it
FilaPropia ==
    /\ respuesta.usuario # Anonimo
    /\ Existe(busquedas, respuesta.id, respuesta.usuario)

\* the value v of 'puntuacion' inside the index nombre of indices is an
\* integer
IndiceConPuntuacion(indices, nombre) ==
    /\ nombre \in DOMAIN indices.m
    /\ indices.m[nombre].t = "dict"
    /\ ClavePuntuacion \in DOMAIN indices.m[nombre].m
    /\ indices.m[nombre].m[ClavePuntuacion].t = "int"

\* the parsed value is an object that holds indices_clave, an object with
\* at least one of the three indices, each one present with its score
FormaEsperada(v) ==
    /\ v.t = "dict"
    /\ ClaveIndices \in DOMAIN v.m
    /\ v.m[ClaveIndices].t = "dict"
    /\ \E nombre \in {ClaveAdecuacion, ClaveFactibilidad, ClaveImpacto} :
          IndiceConPuntuacion(v.m[ClaveIndices], nombre)
    /\ \A nombre \in {ClaveAdecuacion, ClaveFactibilidad, ClaveImpacto} :
          nombre \in DOMAIN v.m[ClaveIndices].m
              => IndiceConPuntuacion(v.m[ClaveIndices], nombre)

\* null, text that is not JSON, or JSON without the expected object shape
NoUtilizable(resultado_llm) ==
    \/ resultado_llm = None
    \/ ~IsStr(resultado_llm)
    \/ json_loads(resultado_llm.s).raised
    \/ ~FormaEsperada(json_loads(resultado_llm.s).val)

\* C17: for every stored search owned by the requester whose resultado_llm
\* is not a usable saved report (null, text that is not JSON, or JSON that
\* does not have the expected object shape), the resultado view answers
\* with the message "Error al cargar los resultados." and a redirect to
\* home, never with an unhandled exception.
C17_RecuperacionLocal ==
    (/\ Respondido("resultado")
     /\ FilaPropia
     /\ NoUtilizable(busquedas[respuesta.id].resultado_llm))
    => (/\ respuesta.status = 302
        /\ respuesta.destino = "core:home"
        /\ respuesta.mensaje = MsgErrorCargar
        /\ respuesta.excepcion = "")

\* the range of a key-index score
PuntuacionMinima == 1
PuntuacionMaxima == 100

\* the report v holds a key-index score outside the range
PuntuacionFueraDeRango(v) ==
    /\ v.t = "dict"
    /\ ClaveIndices \in DOMAIN v.m
    /\ v.m[ClaveIndices].t = "dict"
    /\ \E nombre \in {ClaveAdecuacion, ClaveFactibilidad, ClaveImpacto} :
          /\ IndiceConPuntuacion(v.m[ClaveIndices], nombre)
          /\ v.m[ClaveIndices].m[nombre].m[ClavePuntuacion].n
                 \notin PuntuacionMinima..PuntuacionMaxima

\* home answered with the redirect to the row it created
HomeGuardo ==
    /\ Respondido("home")
    /\ respuesta.destino = "core:resultado"
    /\ respuesta.id \in DOMAIN busquedas

\* the report in the row home created
ReporteGuardado == json_loads(busquedas[respuesta.id].resultado_llm.s).val

\* C18: a report that violates the data-model invariants (here a key-index
\* score outside 1..100) is rejected as a validation failure when it is
\* consumed: home never stores it and resultado never renders it as a
\* valid report.
C18_ReporteInvalidoRechazado ==
    /\ HomeGuardo => ~PuntuacionFueraDeRango(ReporteGuardado)
    /\ (Respondido("resultado") /\ respuesta.status = 200)
           => ~PuntuacionFueraDeRango(respuesta.resultado)

\* a step in which resultado or borrar_consulta answers a request
PasoDeVista ==
    /\ fase = "web"
    /\ fase' = "respondido"
    /\ respuesta'.vista \in {"resultado", "borrar_consulta"}

\* the request answered in the step comes from a logged-in user and names
\* a row of somebody else
PeticionAjena ==
    /\ respuesta'.usuario # Anonimo
    /\ respuesta'.id \in DOMAIN busquedas
    /\ busquedas[respuesta'.id].usuario # respuesta'.usuario

\* the step shows the row or deletes it
FilaMostrada == respuesta'.vista = "resultado" /\ respuesta'.status = 200
FilaBorrada == busquedas' # busquedas

\* the request answered in the step comes from the owner of the row
PeticionDelDueno ==
    /\ respuesta'.usuario # Anonimo
    /\ Existe(busquedas, respuesta'.id, respuesta'.usuario)

\* C19: a stored search can be viewed (resultado) and deleted
\* (borrar_consulta) only by the user who created it: for any other
\* authenticated user both views answer 404 and the record stays in the
\* store unchanged, and a deletion happens only on a POST request.
C19_SoloElDueno ==
    [][PasoDeVista =>
         /\ (FilaMostrada \/ FilaBorrada) => PeticionDelDueno
         /\ PeticionAjena => (respuesta'.status = 404 /\ busquedas' = busquedas)
         /\ FilaBorrada => respuesta'.metodo = "POST"]_vars

\* the status another logged-in user gets: borrar_consulta refuses every
\* method but POST before it looks the row up
EstadoAjeno ==
    IF respuesta'.vista = "borrar_consulta" /\ respuesta'.metodo # "POST"
    THEN 405 ELSE 404

\* C19, as the code has it: only the owner is shown the row, and only a
\* POST of the owner to borrar_consulta deletes it, that row and no other;
\* for any other authenticated user the record stays in the store
\* unchanged, resultado answers 404, and borrar_consulta answers 404 to a
\* POST and 405 to any other method.
C19_SoloElDuenoPorPost ==
    [][PasoDeVista =>
         /\ (FilaMostrada \/ FilaBorrada) => PeticionDelDueno
         /\ PeticionAjena
              => (respuesta'.status = EstadoAjeno /\ busquedas' = busquedas)
         /\ FilaBorrada
              => (/\ respuesta'.vista = "borrar_consulta"
                  /\ respuesta'.metodo = "POST"
                  /\ busquedas' = SinFila(busquedas, respuesta'.id))]_vars

\* luis asked by POST for the deletion of a row of ana: 404, and the row
\* is still there
C19_Testigo ==
    /\ Respondido("borrar_consulta")
    /\ respuesta.metodo = "POST"
    /\ respuesta.usuario = "luis"
    /\ respuesta.id \in DOMAIN busquedas
    /\ busquedas[respuesta.id].usuario = "ana"
    /\ respuesta.status = 404

\* a run of the command has come to its end
ComandoCompletado == fase = "respondido" /\ comando.estado = "completado"

\* every row has the category clasificar_consulta gives to its text
TodasClasificadas ==
    \A id \in DOMAIN busquedas :
        /\ busquedas[id].categoria
               = clasificar_consulta(busquedas[id].texto_problema).val
        /\ validar_categoria(busquedas[id].categoria)

\* C20: after reclasificar_busquedas runs with --force to completion,
\* every stored search's categoria equals
\* clasificar_consulta(texto_problema), and is therefore one of the nine
\* valid labels, whatever category (including labels outside the nine) it
\* had before the run.
C20_Reclasificadas ==
    (ComandoCompletado /\ comando.force) => TodasClasificadas

\* C20, as the code has it: the same after a run with --force and without
\* --dry-run; with --dry-run the run lists the changes and applies none,
\* --force or not.
C20_ReclasificadasSinDryRun ==
    /\ (ComandoCompletado /\ comando.force /\ ~comando.dry_run)
           => TodasClasificadas
    /\ (ComandoCompletado /\ comando.dry_run)
           => comando.cambios_aplicados = 0

\* a run with --force alone has changed a category that was none of the
\* nine into the one of the classifier
C20_Testigo ==
    /\ ComandoCompletado
    /\ comando.force
    /\ ~comando.dry_run
    /\ comando.cambios_aplicados >= 1
    /\ \E i \in 1..Len(comando.cambios_pendientes) :
          /\ comando.cambios_pendientes[i].categoria_actual = "Emprendimiento"
          /\ comando.cambios_pendientes[i].id \in DOMAIN busquedas
          /\ busquedas[comando.cambios_pendientes[i].id].categoria
                 = comando.cambios_pendientes[i].nueva_categoria
    /\ TodasClasificadas

(***************************************************************************)
(* C21                                                                     *)
(***************************************************************************)
\* the step of the command that applies the pending changes
PasoAplicar == comando.estado = "pendiente" /\ comando'.estado = "completado"

\* the update of one of the listed rows fails: the row is gone
CambioFallido ==
    \E i \in 1..Len(comando.cambios_pendientes) :
        comando.cambios_pendientes[i].id \notin DOMAIN busquedas

SinCambioDeCategoria ==
    /\ DOMAIN busquedas' = DOMAIN busquedas
    /\ \A k \in DOMAIN busquedas :
          busquedas'[k].categoria = busquedas[k].categoria

TodosLosCambios ==
    \A i \in 1..Len(comando.cambios_pendientes) :
        /\ comando.cambios_pendientes[i].id \in DOMAIN busquedas'
        /\ busquedas'[comando.cambios_pendientes[i].id].categoria
               = comando.cambios_pendientes[i].nueva_categoria

\* C21: applying the pending reclassifications is atomic: either every
\* pending change of category is committed or none is; when the update of
\* one record fails, the run changes the category of no record.
C21_Atomica ==
    [][PasoAplicar =>
          IF CambioFallido THEN SinCambioDeCategoria ELSE TodosLosCambios]_vars

(***************************************************************************)
(* C22                                                                     *)
(***************************************************************************)
\* a step taken by the command: the listing, the application or the
\* cancellation
PasoDeComando == comando' # comando /\ comando'.estado # "inactivo"

\* the step that follows the answer to the question, asked without --force
PasoDeRespuesta ==
    PasoDeComando /\ comando.estado = "pendiente" /\ ~comando.force

\* C22 as stated: with --dry-run, or without --force when the answer is
\* anything other than 'y', the command modifies no stored search.
C22_SinModificar ==
    [][((PasoDeComando /\ comando'.dry_run)
        \/ (PasoDeRespuesta /\ comando'.entrada # <<"y">>))
          => busquedas' = busquedas]_vars

\* C22 amended: with --dry-run, or without --force when the answer, with
\* the surrounding white space removed and in lower case, is other than
\* 'y', the command modifies no stored search; the answers 'Y' and ' y '
\* are taken as 'y'.
C22_SinModificarSalvoY ==
    [][((PasoDeComando /\ comando'.dry_run)
        \/ (PasoDeRespuesta /\ Lower(Strip(comando'.entrada)) # <<"y">>))
          => busquedas' = busquedas]_vars

\* a run without --force was answered n and a listed row keeps the
\* category it had
C22_Testigo ==
    /\ fase = "respondido"
    /\ comando.estado = "cancelado"
    /\ comando.entrada = <<"n">>
    /\ \E i \in 1..Len(comando.cambios_pendientes) :
          /\ comando.cambios_pendientes[i].id \in DOMAIN busquedas
          /\ busquedas[comando.cambios_pendientes[i].id].categoria
                 = comando.cambios_pendientes[i].categoria_actual

(***************************************************************************)
(* core/utils.py: sanitizar_texto.                                         *)
(***************************************************************************)
LT == "<"
GT == ">"

\* re.sub(r'<[^>]+>', '', texto) from position i: a tag is a '<', one or
\* more characters other than '>', and the first '>' that follows
RECURSIVE QuitarEtiquetasDesde(_, _)
SinEtiquetaEn(s, i, fin) ==
    IF fin > i + 1 THEN QuitarEtiquetasDesde(s, fin + 1)
    ELSE <<s[i]>> \o QuitarEtiquetasDesde(s, i + 1)

QuitarEtiquetasDesde(s, i) ==
    IF i > Len(s) THEN <<>>
    ELSE IF s[i] = LT THEN SinEtiquetaEn(s, i, FindFrom(s, GT, i + 1))
    ELSE <<s[i]>> \o QuitarEtiquetasDesde(s, i + 1)

QuitarEtiquetas(s) == QuitarEtiquetasDesde(s, 1)

sql_keywords == <<<<"D", "R", "O", "P">>, <<"T", "A", "B", "L", "E">>>>

Removed == <<"[", "R", "E", "M", "O", "V", "E", "D", "]">>

\* the pattern re.compile(re.escape(keyword), re.IGNORECASE) matches at i
CoincideEn(s, keyword, i) ==
    /\ i + Len(keyword) - 1 <= Len(s)
    /\ Lower(SubSeq(s, i, i + Len(keyword) - 1)) = Lower(keyword)

\* pattern.sub('[REMOVED]', texto) from position i: the matches from the
\* left that do not overlap
RECURSIVE ReemplazarDesde(_, _, _)
ReemplazarDesde(s, keyword, i) ==
    IF i > Len(s) THEN <<>>
    ELSE IF CoincideEn(s, keyword, i)
    THEN Removed \o ReemplazarDesde(s, keyword, i + Len(keyword))
    ELSE <<s[i]>> \o ReemplazarDesde(s, keyword, i + 1)

\* the loop over sql_keywords
RECURSIVE ReemplazarClaves(_, _)
ReemplazarClaves(s, k) ==
    IF k > Len(sql_keywords) THEN s
    ELSE ReemplazarClaves(ReemplazarDesde(s, sql_keywords[k], 1), k + 1)

\* the characters of the class ['"\;]
Peligrosos == {"'", QUOTE, "\\", ";"}

NoPeligroso(c) == c \notin Peligrosos

\* re.sub(r"['\"\;]", '', texto)
QuitarPeligrosos(s) == SelectSeq(s, NoPeligroso)

\* sanitizar_texto(texto) for a text or None
sanitizar_texto(v) ==
    IF v = None THEN <<>>
    ELSE Strip(QuitarPeligrosos(ReemplazarClaves(QuitarEtiquetas(v.s), 1)))

(***************************************************************************)
(* SpecSanitizar: sanitizar_texto on one text.  A text is None or the      *)
(* concatenation of at most MaxTrozos pieces: parts of the two key words   *)
(* in either case, a tag, the characters of a tag, characters that are     *)
(* removed, and white space.                                               *)
(***************************************************************************)
MaxTrozos == 3

Trozos ==
    {<<"D", "R">>, <<"O", "P">>, <<"d", "r", "o", "p">>,
     <<"T", "a", "b">>, <<"l", "e">>,
     <<"'">>, <<";">>, <<LT, "b", GT>>, <<LT>>, <<GT>>, <<SP>>}

RECURSIVE TextosSuciosDe(_)
TextosSuciosDe(k) ==
    IF k = 0 THEN {<<>>}
    ELSE TextosSuciosDe(k - 1)
         \cup {c \o p : c \in TextosSuciosDe(k - 1), p \in Trozos}

TextosSucios == {None} \cup {JStr(s) : s \in TextosSuciosDe(MaxTrozos)}

InitSanitizar ==
    /\ fase = "sucio"
    /\ SinUsoServicio
    /\ SinUsoExtraer
    /\ SinUsoClasificar
    /\ SinUsoWeb
    /\ textoSucio \in TextosSucios
    /\ textoSaneado = SinSaneado
    /\ SinUsoHome

\* textoSaneado = sanitizar_texto(textoSucio)
Sanitizar ==
    /\ fase = "sucio"
    /\ fase' = "saneado"
    /\ textoSaneado' = [hecho |-> TRUE, val |-> sanitizar_texto(textoSucio)]
    /\ UNCHANGED <<environ, CEREBRAS_API_KEY, llamada, texto, extraccion,
                   salidaCerebras, salidaGemini, consulta, categoria,
                   primeraSinClave, varsWeb, textoSucio, varsHome>>

NextSanitizar == Sanitizar

SpecSanitizar == InitSanitizar /\ [][NextSanitizar]_vars

(***************************************************************************)
(* C23                                                                     *)
(***************************************************************************)
\* C23: for every input text, the output of sanitizar_texto contains
\* neither 'DROP' nor 'TABLE' in any letter case.
C23_SinPalabrasSql ==
    textoSaneado.hecho =>
        \A k \in 1..Len(sql_keywords) :
            ~Contiene(Lower(textoSaneado.val), Lower(sql_keywords[k]))

(***************************************************************************)
(* C24                                                                     *)
(***************************************************************************)
\* the call reached Gemini and generate_content returned a response object
RespuestaGemini ==
    /\ Retornado
    /\ llamada.model = "gemini"
    /\ ~SinPeticiones
    /\ llamada.comp.forma \in {"ok", "text_raise"}

\* the accessor yields a text that is not empty
HayTexto(v) == IsStr(v) /\ v.s # <<>>

\* response.text is a text that is not empty
TextoDirecto == llamada.comp.forma = "ok" /\ HayTexto(llamada.comp.content)

\* response.text is missing or empty, or reading it fails
SinTextoDirecto ==
    \/ llamada.comp.forma = "text_raise"
    \/ llamada.comp.content \in {Ausente, None, JStr(<<>>)}

\* what the adapter returns when t is the raw text used
ResultadoDelTexto(t) ==
    IF Strip(t) = <<>> THEN Return(ErrorDict(MsgGeminiVacio))
    ELSE IF json_loads(t).raised THEN Return(ErrorDict(MsgJsonInvalido))
    ELSE Return(json_loads(t).val)

\* C24: in the Gemini adapter a response.text that is not empty is the raw
\* text used whatever the candidates hold; candidates[0].content.parts[0]
\* .text is used only when response.text is missing or empty; when neither
\* accessor yields a text that is not empty the call returns the failure
\* "La respuesta de Gemini no contiene texto válido en ningún formato
\* esperado."
C24_AccesoAlTexto ==
    RespuestaGemini =>
        /\ TextoDirecto
              => llamada.o = ResultadoDelTexto(llamada.comp.content.s)
        /\ (SinTextoDirecto /\ HayTexto(llamada.comp.parte))
              => llamada.o = ResultadoDelTexto(llamada.comp.parte.s)
        /\ (SinTextoDirecto /\ ~HayTexto(llamada.comp.parte))
              => llamada.o = Return(ErrorDict(MsgGeminiSinTexto))

(***************************************************************************)
(* C25                                                                     *)
(***************************************************************************)
\* the top-level brace groups of t from position p, in text order: each
\* runs from a '{' to the '}' that closes it
RECURSIVE GruposDesde(_, _)
GrupoEn(t, i, grupo) ==
    IF grupo.nada THEN <<>>
    ELSE <<grupo.s>> \o GruposDesde(t, i + Len(grupo.s))

GruposEn(t, i) ==
    IF i = 0 THEN <<>> ELSE GrupoEn(t, i, BalancearDesde(t, i, i, 0))

GruposDesde(t, p) == GruposEn(t, FindFrom(t, LB, p))

Grupos(t) == GruposDesde(t, 1)

\* the groups that parse as JSON
GruposValidos(grupos) ==
    {k \in 1..Len(grupos) : ~json_loads(grupos[k]).raised}

PrimerValido(grupos) ==
    CHOOSE k \in GruposValidos(grupos) :
        \A j \in GruposValidos(grupos) : k <= j

\* the whole text is not JSON and holds several top-level brace groups
VariosGrupos ==
    /\ extraccion.hecho
    /\ json_loads(Strip(texto)).raised
    /\ Len(Grupos(Strip(texto))) >= 2

\* C25: when the raw text holds several top-level brace groups the
\* extractor tries them in text order and returns the first one that
\* parses as JSON; a valid JSON object that follows an unparseable group
\* is recovered.
C25_PrimerGrupoValido ==
    (VariosGrupos /\ GruposValidos(Grupos(Strip(texto))) # {})
    => (/\ extraccion.raised = ""
        /\ extraccion.val
             = json_loads(Grupos(Strip(texto))[PrimerValido(Grupos(Strip(texto)))]).val)

(***************************************************************************)
(* C26                                                                     *)
(***************************************************************************)
\* the third attempt gave the value returned for the raw text t
RecuperaEnTercera(t) ==
    ExtraerConEtapa(t).etapa = 3 /\ ExtraerConEtapa(t).val # None

\* C26 as stated: there are raw texts on which the first and the second
\* attempt recover no object and on which the manual brace scan of the
\* third attempt returns a parsed object.
C26_TerceraEtapaRecupera ==
    extraccion.hecho => \E t \in RawTexts : RecuperaEnTercera(t)

\* C26 amended: the third attempt adds no recovery power; whenever the
\* first and the second attempt recover nothing the extractor returns
\* None, also when the text holds a balanced brace group that the third
\* attempt cuts out and gives to json.loads.
C26_TerceraEtapaSinValor ==
    (extraccion.hecho /\ extraccion.etapa = 3)
    => (extraccion.raised = "" /\ extraccion.val = None)

\* the third attempt was reached on a text with a balanced brace group
C26_Testigo ==
    /\ extraccion.hecho
    /\ extraccion.etapa = 3
    /\ Grupos(Strip(texto)) # <<>>

(***************************************************************************)
(* C27                                                                     *)
(***************************************************************************)
\* the place of the category cat in orden_prioridad
Prioridad(cat) == CHOOSE k \in 1..Len(orden_prioridad) : orden_prioridad[k] = cat

FilasHeredadas ==
    {Busqueda("ana", TextoChatbot, "gemini", c, JStr(TextoReporte(11))) :
        c \in CategoriasGuardadas}
    \cup {Busqueda("ana", <<"a">>, "openai", "Emprendimiento", None)}

TablasHome == {<<>>} \cup {<<f>> : f \in FilasHeredadas}

\* provider texts of the requests: besides those of ComportamientosWeb,
\* JSON strings with and without the word error
ComportamientosHome ==
    ComportamientosWeb
        \cup {Comportamiento("ok", JStr(x), Ausente) :
                x \in {<<QUOTE, "a", QUOTE>>,
                       <<QUOTE, "e", "r", "r", "o", "r", QUOTE>>}}

InitHome ==
    /\ fase = "web"
    /\ environ = EntornoWeb
    /\ CEREBRAS_API_KEY = EntornoWeb["CEREBRAS_API_KEY"]
    /\ llamada = SinLlamada
    /\ SinUsoExtraer
    /\ SinUsoClasificar
    /\ primeraSinClave = SinPrimera
    /\ busquedas \in TablasHome
    /\ siguienteId = Len(busquedas) + 1
    /\ respuesta = SinRespuesta
    /\ comando = ComandoInactivo
    /\ SinUsoSanitizar
    /\ SinUsoHome

\* a request to home: the form is kept with the response, and the id of
\* the row the request added is kept in creadas
HomeEnviado(usuario, metodo, problema, model, comp) ==
    /\ fase = "web"
    /\ siguienteId <= MaxBusquedas
    /\ Responder(home(Request("home", usuario, metodo, 0), busquedas,
                      siguienteId, problema, model, CEREBRAS_API_KEY,
                      environ, comp))
    /\ formulario' = [usuario |-> usuario, metodo |-> metodo,
                      problema |-> problema, model |-> model,
                      comp |-> comp]
    /\ creadas' = creadas \cup (DOMAIN busquedas' \ DOMAIN busquedas)

NextHome ==
    \/ \E usuario \in {"ana", Anonimo}, metodo \in Metodos,
          problema \in ProblemasFormulario, model \in ModelosFormulario,
          comp \in ComportamientosHome :
          HomeEnviado(usuario, metodo, problema, model, comp)
    \/ \E metodo \in Metodos, id \in 1..MaxBusquedas :
          BorrarConsulta("ana", metodo, id)
    \/ \E dry_run \in BOOLEAN, force \in BOOLEAN :
          ReclasificarListar(dry_run, force)
    \/ ReclasificarAplicar
    \/ \E entrada \in Entradas : ReclasificarConfirmar(entrada)
    \/ ContinuarWeb

SpecHome == InitHome /\ [][NextHome]_vars

\* analizar_viabilidad as home calls it for the form f
ResultadoDelFormulario(f) ==
    analizar_viabilidad(NombreModelo(f.model), JStr(Strip(f.problema)),
                        CEREBRAS_API_KEY, environ, f.comp).o

\* the call returned a value in which the view finds no 'error'
SinClaveError(o) == o.raised = "" /\ EnValor(ClaveError, o.val) = "no"

\* the form was submitted by a user with a text of at least 10 trimmed
\* characters, and the analysis of it returned a result without 'error'
Admisible(f) ==
    /\ f.usuario # Anonimo
    /\ f.metodo = "POST"
    /\ Len(Strip(f.problema)) >= MinLongitud
    /\ SinClaveError(ResultadoDelFormulario(f))

\* a step in which home answers a request
PasoHome == fase = "web" /\ fase' = "respondido" /\ respuesta'.vista = "home"

\* the step adds exactly one row, of the user, under the next id
CreaBusqueda ==
    /\ DOMAIN busquedas' = DOMAIN busquedas \cup {siguienteId}
    /\ siguienteId \notin DOMAIN busquedas
    /\ busquedas'[siguienteId].usuario = formulario'.usuario
    /\ \A i \in DOMAIN busquedas : busquedas'[i] = busquedas[i]

\* C28: home creates a stored search exactly when the submitted text has
\* at least 10 trimmed characters and analizar_viabilidad returns a result
\* with no 'error' key; in every other case (validation failure, provider
\* error, exception while processing) the table stays as it was, so a
\* report with a top-level 'error' key is discarded
C28_CreaExactamente ==
    [][PasoHome => IF Admisible(formulario') THEN CreaBusqueda
                   ELSE busquedas' = busquedas]_vars

\* home answered a valid form and the row it made is in the table
C28_Testigo ==
    /\ Respondido("home")
    /\ Admisible(formulario)
    /\ respuesta.id \in creadas
    /\ respuesta.id \in DOMAIN busquedas

\* the row satisfies what home stores: one of the two providers, a text of
\* at least 10 trimmed characters, and the category of that text
ComoLaGuardaHome(fila) ==
    /\ fila.modelo \in {"gemini", "cerebras"}
    /\ Len(Strip(fila.texto_problema)) >= MinLongitud
    /\ fila.categoria = clasificar_consulta(fila.texto_problema).val

\* the call returned the error of the unsupported provider
EsNoSoportado(o) == o.raised = "" /\ o.val = ErrorDict(MsgNoSoportado)

\* C29: after any sequence of home submissions, deletions and runs of
\* reclasificar_busquedas, every stored search that was created through
\* home has modelo in {gemini, cerebras}, a texto_problema of at least 10
\* trimmed characters and categoria equal to
\* clasificar_consulta(texto_problema); no request to home ends in the
\* error of the unsupported provider, an unrecognised selector being
\* replaced by gemini
C29_FilasDeHome ==
    /\ \A id \in creadas \cap DOMAIN busquedas :
          ComoLaGuardaHome(busquedas[id])
    /\ Respondido("home") /\ formulario.metodo = "POST" =>
          ~EsNoSoportado(ResultadoDelFormulario(formulario))

\* a row created through home with the selector 'openai' is stored, and a
\* run of the command has changed a row made before
C29_Testigo ==
    /\ comando.estado = "completado"
    /\ comando.cambios_aplicados > 0
    /\ \E id \in creadas \cap DOMAIN busquedas :
          busquedas[id].modelo = "gemini"

\* C30: every non-error result of analizar_viabilidad is a JSON object (a
\* mapping): raw provider text that parses to a JSON value that is no
\* object (array, number, string, true/false, null) is never returned as
\* a report
C30_SoloObjetos ==
    Retornado /\ llamada.o.raised = "" => llamada.o.val.t = "dict"

=============================================================================
